---- MODULE Spec2Model ----
(***************************************************************************)
(* A model of the oral-video keyframe pipeline of liuandian/oral_algorithm *)
(*                                                                         *)
(*   - KeyframeExtractor.extract_keyframes  (app/core/keyframe_extractor)  *)
(*   - FrameMatcherService                  (app/core/frame_matcher)       *)
(*   - the baseline upload path that fills the store the matcher reads     *)
(*                                                                         *)
(* Numbers.  Coverage ratios are per-mille (0..1000).  Anomaly scores are  *)
(* in units of 1/10000 (0.5 is 5000).  Match scores are in units of 1/1000 *)
(* (0.35 is 350).                                                          *)
(***************************************************************************)
EXTENDS Integers, Sequences, FiniteSets, TLC

VARIABLES
    video,            \* the source handed to extract_keyframes (NoVideo before the call)
    pc,               \* position of the extract_keyframes run
    priority_frames,  \* extract_keyframes: rule-triggered candidates
    uniform_frames,   \* extract_keyframes: uniform candidates
    all_candidates,   \* extract_keyframes: merged, index-sorted candidates
    final_frames,     \* extract_keyframes: candidates kept after the cap
    pending,          \* rows added to the DB session and not yet committed
    a_keyframes,      \* committed rows of table a_keyframes
    a_sessions,       \* committed rows of table a_sessions, in creation order
    a_evidence_packs, \* committed rows of table a_evidence_packs, in creation order
    profile,          \* the user's a_user_profiles row (NoProfile before its creation)
    uploads,          \* number of baseline uploads handled after the initial history
    last,             \* the result of the last matcher call
    frame,            \* the image handed to the scorer and to the analyzers
    scored,           \* what _detect_anomaly_opencv returned for it, once called
    calls,            \* the classifier calls made so far, with what they returned
    handlers,         \* upload requests under way: where each stands
    a_reports         \* session ids of the committed rows of table a_reports

vars == <<video, pc, priority_frames, uniform_frames, all_candidates, final_frames,
          pending, a_keyframes, a_sessions, a_evidence_packs, profile, uploads, last,
          frame, scored, calls, handlers, a_reports>>

extractVars == <<video, pc, priority_frames, uniform_frames, all_candidates,
                 final_frames, pending>>
storeVars == <<a_sessions, a_evidence_packs, profile, uploads>>
analyzeVars == <<frame, scored, calls>>

(***************************************************************************)
(* Configuration (app/config.py)                                           *)
(***************************************************************************)
MAX_KEYFRAMES == 25
MIN_KEYFRAMES == 5
UNIFORM_SAMPLE_COUNT == 20
PRIORITY_FRAME_THRESHOLD == 5000
PROXIMITY_WINDOW == 5
DEFAULT_SCAN_INTERVAL == 30

(***************************************************************************)
(* Bounds of the explored videos                                           *)
(***************************************************************************)
MaxFrames == 30      \* frame counts 1..MaxFrames (ingestion rejects a video without frames)
HotGrain == 5        \* the anomalous segment starts and ends on multiples of this
GapGrain == 15       \* the unreadable segment starts and ends on multiples of this
FrameRates == <<30, 5, 1, 0>>   \* 0: the container reports no frame rate

Min(a, b) == IF a < b THEN a ELSE b
Abs(a) == IF a < 0 THEN 0 - a ELSE a
Range(s) == {s[i] : i \in DOMAIN s}

(***************************************************************************)
(* Frames.  A frame is known to the scorer only through three coverage     *)
(* ratios: low-luminance, yellow-hued and high-saturation red pixels.  The *)
(* analyzer knows it through what its own masks measure (field masks):     *)
(*   tooth_white, gum_pink, yellow_plaque, gum_red, oral_cavity            *)
(*                  coverage of the denoised masks, per-mille of the image *)
(*   gum_upper      share of the gum pixels in the upper half, per-mille   *)
(*   tooth_left     share of the tooth pixels in the left half, per-mille  *)
(*   contours       some tooth contour has an area of 500 pixels or more   *)
(*   aspect, solidity  mean width/height and mean area/hull area of those  *)
(*                  contours, in 1/1000                                    *)
(*   texture_var    variance of the Laplacian over the tooth pixels        *)
(*   valleys        number of gaps in the vertical tooth projection        *)
(*   center_cavity  share of the cavity pixels in the central ninth        *)
(*   dark_in_tooth  dark coverage of the dilated tooth region, per-mille   *)
(*   defect         a low-solidity contour with two deep convexity defects *)
(***************************************************************************)
NoMasks ==
    [tooth_white |-> 0, gum_pink |-> 0, yellow_plaque |-> 0, gum_red |-> 0,
     oral_cavity |-> 0, gum_upper |-> 0, tooth_left |-> 0, contours |-> FALSE,
     aspect |-> 0, solidity |-> 0, texture_var |-> 0, valleys |-> 0,
     center_cavity |-> 0, dark_in_tooth |-> 0, defect |-> FALSE]

\* a front view of clean teeth under a band of gum
SmileMasks ==
    [NoMasks EXCEPT !.tooth_white = 300, !.gum_pink = 100, !.gum_upper = 1000,
                    !.tooth_left = 500, !.contours = TRUE, !.aspect = 500,
                    !.solidity = 900]
\* saturated red everywhere the masks look
RedMasks == [NoMasks EXCEPT !.gum_red = 500]
\* reddened gum along the upper edge, some plaque
InflamedMasks ==
    [SmileMasks EXCEPT !.gum_pink = 200, !.gum_red = 200, !.yellow_plaque = 60]
\* deposits, plaque and reddened gum
SevereMasks ==
    [InflamedMasks EXCEPT !.yellow_plaque = 100, !.dark_in_tooth = 100]
\* every pixel below the luminance floor of every coloured mask
DarkMasks == [NoMasks EXCEPT !.oral_cavity = 1000, !.center_cavity = 111]

Frame(black, yellow, red, masks) ==
    [black |-> black, yellow |-> yellow, red |-> red, masks |-> masks]

NeutralFrame == Frame(0, 0, 0, SmileMasks)
RedFrame == Frame(0, 0, 500, RedMasks)
InflamedFrame == Frame(0, 60, 200, InflamedMasks)
SevereFrame == Frame(100, 100, 200, SevereMasks)
DarkFrame == Frame(1000, 0, 0, DarkMasks)
\* frame is None, or frame.size == 0
EmptyFrame == [empty |-> TRUE]
HotFrames == {InflamedFrame, SevereFrame}
\* what the frames of the marked segment of a video may show
SegmentFrames == HotFrames \cup {RedFrame}

\* _detect_anomaly_opencv: the total anomaly score of a frame
DarkTerm(f) == IF f.black > 20 /\ f.black < 300 THEN Min(f.black * 40, 3500) ELSE 0
YellowTerm(f) == IF f.yellow > 15 THEN Min(f.yellow * 50, 3500) ELSE 0
RedTerm(f) == IF f.red > 80 THEN Min(f.red * 25, 3000) ELSE 0
\* the three terms without their caps and without the exclusion of black frames
detect_anomaly_uncapped(f) ==
    IF f = EmptyFrame THEN 0 ELSE f.black * 40 + f.yellow * 50 + f.red * 25

detect_anomaly_opencv(f) ==
    IF f = EmptyFrame THEN 0
    ELSE Min(DarkTerm(f) + YellowTerm(f) + RedTerm(f), 10000)

(***************************************************************************)
(* KeyframeAnalyzer (app/core/keyframe_analyzer).  Confidences are in      *)
(* units of 1/1000; a product of two of them is rounded down once.         *)
(***************************************************************************)
TOOTH_AREA_THRESHOLD == 100
GUM_VISIBILITY_THRESHOLD == 150
DARK_DEPOSIT_RATIO_THRESHOLD == 20
YELLOW_PLAQUE_RATIO_THRESHOLD == 15
GUM_REDNESS_RATIO_THRESHOLD == 80

Max(a, b) == IF a > b THEN a ELSE b

\* _calculate_region_ratios, as far as the later steps read it
region_ratios(m) ==
    [tooth_white |-> m.tooth_white, gum_pink |-> m.gum_pink,
     yellow_plaque |-> m.yellow_plaque, gum_red |-> m.gum_red,
     oral_cavity |-> m.oral_cavity]

\* a gate that also lets a frame through on its dark background
is_valid_or_dark_image(ratios) ==
    \/ ratios.tooth_white > TOOTH_AREA_THRESHOLD
    \/ ratios.gum_pink > 50
    \/ ratios.oral_cavity > 100

is_valid_oral_image(ratios) ==
    \/ ratios.tooth_white > TOOTH_AREA_THRESHOLD
    \/ ratios.gum_pink > 50

Judged(value, conf) == [value |-> value, conf |-> conf]

analyze_side(m) ==
    IF m.gum_pink > 0 /\ m.gum_upper > 650
    THEN Judged("upper", Min(500 + ((m.gum_upper - 500) * 8) \div 10, 900))
    ELSE IF m.gum_pink > 0 /\ 1000 - m.gum_upper > 650
    THEN Judged("lower", Min(500 + (((1000 - m.gum_upper) - 500) * 8) \div 10, 900))
    ELSE IF m.tooth_white > 0 /\ m.tooth_left > 700
    THEN Judged("left", Min(500 + ((m.tooth_left - 500) * 6) \div 10, 800))
    ELSE IF m.tooth_white > 0 /\ 1000 - m.tooth_left > 700
    THEN Judged("right", Min(500 + (((1000 - m.tooth_left) - 500) * 6) \div 10, 800))
    ELSE Judged("unknown", 500)

analyze_tooth_type(m) ==
    IF ~m.contours THEN Judged("unknown", 300)
    ELSE IF m.aspect < 800 /\ m.solidity > 850
    THEN Judged("anterior", Min(600 + ((800 - m.aspect) * 3) \div 10, 850))
    ELSE IF m.aspect > 1200
    THEN Judged("posterior", Min(600 + ((m.aspect - 1000) * 2) \div 10, 850))
    ELSE IF m.solidity < 800 THEN Judged("posterior", 600)
    ELSE Judged("unknown", 500)

analyze_region(m) ==
    IF m.gum_pink > GUM_VISIBILITY_THRESHOLD
    THEN Judged("gum", Min(500 + (m.gum_pink * 15) \div 10, 850))
    ELSE IF m.tooth_white > 250 /\ m.texture_var > 500
    THEN Judged("occlusal", Min(500 + m.texture_var \div 5, 800))
    ELSE IF m.valleys >= 2
    THEN Judged("interproximal", Min(500 + m.valleys * 100, 800))
    ELSE IF m.oral_cavity > 100 /\ m.center_cavity > 500
    THEN Judged(IF m.gum_pink > 0 /\ 2 * m.gum_upper > 3 * (1000 - m.gum_upper)
                THEN "lingual" ELSE "buccal", 550)
    ELSE Judged("unknown", 500)

detect_issues(m) ==
    LET dark == IF m.tooth_white > 100 /\ m.dark_in_tooth > DARK_DEPOSIT_RATIO_THRESHOLD
                THEN <<"dark_deposit">> ELSE << >>
        yellow == IF m.yellow_plaque > YELLOW_PLAQUE_RATIO_THRESHOLD
                  THEN <<"yellow_plaque">> ELSE << >>
        gum == IF /\ m.gum_pink > 50
                  /\ \/ 10 * m.gum_red > 3 * (m.gum_pink + m.gum_red)
                     \/ m.gum_red > GUM_REDNESS_RATIO_THRESHOLD
               THEN <<"gum_issue">> ELSE << >>
        defect == IF m.defect THEN <<"structural_defect">> ELSE << >>
        issues == dark \o yellow \o gum \o defect
    IN  IF issues = << >> THEN <<"none">> ELSE issues

calculate_overall_confidence(side_conf, type_conf, region_conf, ratios) ==
    LET quality_factor == Min((ratios.tooth_white * 1000) \div 300, 1000)
        final_conf == ((side_conf * 3 + type_conf * 3 + region_conf * 4)
                        * (7000 + 3 * quality_factor)) \div 100000
    IN  Min(Max(final_conf, 0), 1000)

\* Python's None where a dictionary may stand
NoDict == [none |-> TRUE]

create_unknown_result(debug, reason, debug_info) ==
    [side |-> "unknown", tooth_type |-> "unknown", region |-> "unknown",
     detected_issues |-> <<"unknown">>, confidence_score |-> 0,
     debug_info |-> [reason |-> reason, info |-> debug_info]]

analyze_frame(debug, f) ==
    IF f = EmptyFrame THEN create_unknown_result(debug, "Empty frame", NoDict)
    ELSE LET m == f.masks
             ratios == region_ratios(m)
             side == analyze_side(m)
             type == analyze_tooth_type(m)
             region == analyze_region(m)
         IN  IF ~is_valid_oral_image(ratios)
             THEN create_unknown_result(debug, "Not a valid oral image", ratios)
             ELSE [side |-> side.value, tooth_type |-> type.value,
                   region |-> region.value,
                   detected_issues |-> detect_issues(m),
                   confidence_score |->
                       calculate_overall_confidence(side.conf, type.conf,
                                                    region.conf, ratios),
                   debug_info |->
                       IF debug
                       THEN [ratios |-> ratios, side_conf |-> side.conf,
                             type_conf |-> type.conf, region_conf |-> region.conf]
                       ELSE NoDict]

\* tags whose confidence is withheld by an analyzer in debug mode
meta_tags_muted_by_debug(debug, f) ==
    LET result == analyze_frame(debug, f)
    IN  [side |-> result.side, tooth_type |-> result.tooth_type,
         region |-> result.region, detected_issues |-> result.detected_issues,
         confidence_score |-> IF debug THEN 0 ELSE result.confidence_score,
         is_verified |-> FALSE]

analyze_frame_to_meta_tags(debug, f) ==
    LET result == analyze_frame(debug, f)
    IN  [side |-> result.side, tooth_type |-> result.tooth_type,
         region |-> result.region, detected_issues |-> result.detected_issues,
         confidence_score |-> result.confidence_score, is_verified |-> FALSE]

\* the tags written when analysis is switched off or raises
UnknownMetaTags ==
    [side |-> "unknown", tooth_type |-> "unknown", region |-> "unknown",
     detected_issues |-> <<"unknown">>, confidence_score |-> 0,
     is_verified |-> FALSE]

(***************************************************************************)
(* The frame source.  A video has total_frames frames at fps frames per    *)
(* second; the frames of [hotLo, hotHi) show hotFrame, the others are      *)
(* neutral; the frames of [gapLo, gapHi) cannot be decoded.                *)
(***************************************************************************)
NoVideo == [total_frames |-> 0, fps |-> 0, hotLo |-> 0, hotHi |-> 0,
            hotFrame |-> NeutralFrame, gapLo |-> 0, gapHi |-> 0, opens |-> FALSE]

HotPoints == {i \in 0..(MaxFrames + HotGrain) : i % HotGrain = 0}
GapPoints == {i \in 0..(MaxFrames + GapGrain) : i % GapGrain = 0}

\* the segments [lo, hi) of a video of t frames, an empty one written [0, 0)
Segments(points, t) ==
    {<<0, 0>>} \cup {<<lo, hi>> \in points \X points : lo < hi /\ lo < t}

Video(t, f, hot, hf, gap) ==
    [total_frames |-> t, fps |-> f, hotLo |-> hot[1], hotHi |-> hot[2], hotFrame |-> hf,
     gapLo |-> gap[1], gapHi |-> gap[2], opens |-> TRUE]

\* 20 s at 30 fps, a bright-red region in the frames 150..180, neutral elsewhere
RedRegionVideo == Video(600, 30, <<150, 181>>, RedFrame, <<0, 0>>)

get_frame_count(v) == v.total_frames
get_fps(v) == v.fps
\* duration is derived when the source is opened: frame_count / fps, 0 without a frame rate
DurationPositive(v) == v.fps > 0 /\ v.total_frames > 0

Readable(v, i) == i >= 0 /\ i < v.total_frames /\ ~(i >= v.gapLo /\ i < v.gapHi)
FrameAt(v, i) == IF i >= v.hotLo /\ i < v.hotHi THEN v.hotFrame ELSE NeutralFrame
ReadableCount(v) == Cardinality({i \in 0..(v.total_frames - 1) : Readable(v, i)})

(***************************************************************************)
(* extract_keyframes, track one: the rule scan                             *)
(***************************************************************************)
ScanInterval(v) == IF v.fps > 0 THEN v.fps ELSE DEFAULT_SCAN_INTERVAL

ScannedIndices(v) == {i \in 0..(v.total_frames - 1) : i % ScanInterval(v) = 0}

PriorityEntry(v, i) ==
    [frame_index |-> i, score |-> detect_anomaly_opencv(FrameAt(v, i)),
     strategy |-> "rule_triggered"]

UniformEntry(i) == [frame_index |-> i, score |-> 0, strategy |-> "uniform_sampled"]

\* range(0, total_frames, scan_interval), in order
ScanOrder(v) ==
    [k \in 1..((v.total_frames + ScanInterval(v) - 1) \div ScanInterval(v))
        |-> (k - 1) * ScanInterval(v)]

\* a scan that gives up at the first frame it cannot read
RuleScanUntilUnreadable(v) ==
    LET order == ScanOrder(v)
        upto == IF \A k \in DOMAIN order : Readable(v, order[k]) THEN Len(order)
                ELSE (CHOOSE k \in DOMAIN order :
                        /\ ~Readable(v, order[k])
                        /\ \A j \in 1..(k - 1) : Readable(v, order[j])) - 1
        hits == SelectSeq(SubSeq(order, 1, upto),
                    LAMBDA i : detect_anomaly_opencv(FrameAt(v, i)) > PRIORITY_FRAME_THRESHOLD)
    IN  [k \in DOMAIN hits |-> PriorityEntry(v, hits[k])]

\* the scan loop: a readable frame scoring above the threshold becomes a candidate
RuleScan(v) ==
    LET hits == SelectSeq(ScanOrder(v),
                    LAMBDA i : /\ Readable(v, i)
                               /\ detect_anomaly_opencv(FrameAt(v, i))
                                      > PRIORITY_FRAME_THRESHOLD)
    IN  [k \in DOMAIN hits |-> PriorityEntry(v, hits[k])]

(***************************************************************************)
(* extract_keyframes, track two: uniform sampling                          *)
(***************************************************************************)
\* int(i * (total_frames / target_count)); exact for the frame counts explored
UniformIndex(v, i) == (i * v.total_frames) \div UNIFORM_SAMPLE_COUNT

\* a test that only skips a sample at the very index of a rule-triggered candidate
AtPriority(prio, idx) ==
    \E k \in DOMAIN prio : prio[k].frame_index = idx

NearPriority(prio, idx) ==
    \E k \in DOMAIN prio : Abs(prio[k].frame_index - idx) < PROXIMITY_WINDOW

\* the sampling loop: a sample near a rule-triggered candidate is skipped, so is an
\* unreadable one; nothing else is
UniformFrom(v, prio) ==
    LET order == [k \in 1..UNIFORM_SAMPLE_COUNT |-> UniformIndex(v, k - 1)]
        kept == SelectSeq(order,
                    LAMBDA idx : ~NearPriority(prio, idx) /\ Readable(v, idx))
    IN  [k \in DOMAIN kept |-> UniformEntry(kept[k])]

UniformTrack(v, prio) == IF DurationPositive(v) THEN UniformFrom(v, prio) ELSE << >>

(***************************************************************************)
(* extract_keyframes: merge and cap                                        *)
(***************************************************************************)
\* list.sort(key=frame_index): ascending, stable
\* the place of s[i] after the sort: behind every smaller index and behind
\* the equal indices that stood before it
PlaceAfterSort(s, i) ==
    1 + Cardinality({j \in DOMAIN s :
            \/ s[j].frame_index < s[i].frame_index
            \/ s[j].frame_index = s[i].frame_index /\ j < i})

SortByIndex(s) ==
    [p \in DOMAIN s |-> s[CHOOSE i \in DOMAIN s : PlaceAfterSort(s, i) = p]]

MergeCandidates(prio, unif) == SortByIndex(prio \o unif)

\* the cap forgotten: every merged candidate is kept
TruncateNothing(s) == s

\* all_candidates[:MAX_KEYFRAMES]
Truncate(s) == SubSeq(s, 1, Min(Len(s), MAX_KEYFRAMES))

\* the row handed to db.add for a kept candidate and its image; analysis is
\* FALSE when the extractor was built without an analyzer or the analyzer raises
KeyframeRow(sid, e, image, analysis) ==
    [session_id |-> sid, frame_index |-> e.frame_index,
     extraction_strategy |-> e.strategy, anomaly_score |-> e.score,
     meta_tags |-> IF analysis THEN analyze_frame_to_meta_tags(FALSE, image)
                   ELSE UnknownMetaTags]

RowsOf(sid, s, v, analysis) ==
    [i \in DOMAIN s |-> KeyframeRow(sid, s[i], FrameAt(v, s[i].frame_index), analysis)]

\* UniqueConstraint(session_id, frame_index) of a_keyframes, checked when rows are flushed
UniqueFrameIndex(rows) ==
    Cardinality({<<rows[i].session_id, rows[i].frame_index>> : i \in DOMAIN rows}) = Len(rows)

(***************************************************************************)
(* extract_keyframes as a run: open, scan, sample, merge, save, commit     *)
(***************************************************************************)
RunSession == 1

\* VideoProcessor(video_path) succeeds
ExtractOpen ==
    /\ pc = "idle"
    /\ \/ \E short \in 0..(MaxFrames - 1), k \in DOMAIN FrameRates :
            \E hot \in Segments(HotPoints, MaxFrames - short),
               gap \in Segments(GapPoints, MaxFrames - short) :
                \E hf \in (IF hot = <<0, 0>> THEN {NeutralFrame} ELSE SegmentFrames) :
                    video' = Video(MaxFrames - short, FrameRates[k], hot, hf, gap)
       \/ video' = RedRegionVideo
    /\ pc' = "scan"
    /\ UNCHANGED <<priority_frames, uniform_frames, all_candidates, final_frames,
                   pending, a_keyframes, storeVars, last, analyzeVars, handlers, a_reports>>

\* VideoProcessor(video_path) raises: rollback, re-raise, no processor to release
ExtractOpenFails ==
    /\ pc = "idle"
    /\ video' = [NoVideo EXCEPT !.opens = FALSE]
    /\ pc' = "failed"
    /\ UNCHANGED <<priority_frames, uniform_frames, all_candidates, final_frames,
                   pending, a_keyframes, storeVars, last, analyzeVars, handlers, a_reports>>

ExtractRuleScan ==
    /\ pc = "scan"
    /\ priority_frames' = RuleScan(video)
    /\ pc' = "uniform"
    /\ UNCHANGED <<video, uniform_frames, all_candidates, final_frames,
                   pending, a_keyframes, storeVars, last, analyzeVars, handlers, a_reports>>

ExtractUniform ==
    /\ pc = "uniform"
    /\ uniform_frames' = UniformTrack(video, priority_frames)
    /\ pc' = "merge"
    /\ UNCHANGED <<video, priority_frames, all_candidates, final_frames,
                   pending, a_keyframes, storeVars, last, analyzeVars, handlers, a_reports>>

ExtractMerge ==
    /\ pc = "merge"
    /\ all_candidates' = MergeCandidates(priority_frames, uniform_frames)
    /\ final_frames' = Truncate(MergeCandidates(priority_frames, uniform_frames))
    /\ pc' = "save"
    /\ UNCHANGED <<video, priority_frames, uniform_frames,
                   pending, a_keyframes, storeVars, last, analyzeVars, handlers, a_reports>>

\* every kept frame is written to storage, tagged and added to the DB session
ExtractSave ==
    /\ pc = "save"
    /\ \E analysis \in BOOLEAN :
            pending' = RowsOf(RunSession, final_frames, video, analysis)
    /\ pc' = "commit"
    /\ UNCHANGED <<video, priority_frames, uniform_frames, all_candidates, final_frames,
                   a_keyframes, storeVars, last, analyzeVars, handlers, a_reports>>

\* a save loop that commits each row as it goes: the rows before the failing
\* frame stay
ExtractSaveFailsRowByRow ==
    /\ pc = "save"
    /\ final_frames # << >>
    /\ \E n \in 0..(Len(final_frames) - 1) :
          a_keyframes' = a_keyframes \o
              SubSeq(RowsOf(RunSession, final_frames, video, FALSE), 1, n)
    /\ pending' = << >>
    /\ pc' = "failed"
    /\ UNCHANGED <<video, priority_frames, uniform_frames, all_candidates, final_frames,
                   storeVars, last, analyzeVars, handlers, a_reports>>

\* storage_service.save_keyframe raises for one of the kept frames: rollback, re-raise
ExtractSaveFails ==
    /\ pc = "save"
    /\ final_frames # << >>
    /\ pending' = << >>
    /\ pc' = "failed"
    /\ UNCHANGED <<video, priority_frames, uniform_frames, all_candidates, final_frames,
                   a_keyframes, storeVars, last, analyzeVars, handlers, a_reports>>

\* db.commit(): the rows become visible together
ExtractCommit ==
    /\ pc = "commit"
    /\ UniqueFrameIndex(a_keyframes \o pending)
    /\ a_keyframes' = a_keyframes \o pending
    /\ pending' = << >>
    /\ pc' = "done"
    /\ UNCHANGED <<video, priority_frames, uniform_frames, all_candidates, final_frames,
                   storeVars, last, analyzeVars, handlers, a_reports>>

\* db.commit() raises IntegrityError on uq_session_frame_index: rollback, re-raise
ExtractCommitFails ==
    /\ pc = "commit"
    /\ ~UniqueFrameIndex(a_keyframes \o pending)
    /\ pending' = << >>
    /\ pc' = "failed"
    /\ UNCHANGED <<video, priority_frames, uniform_frames, all_candidates, final_frames,
                   a_keyframes, storeVars, last, analyzeVars, handlers, a_reports>>

NoProfile ==
    [exists |-> FALSE, baseline_zone_map |-> {}, baseline_completed |-> FALSE,
     total_quick_checks |-> 0]
NoResult == [op |-> "none"]
NoHandlers == << >>

InitExtract ==
    /\ video = NoVideo
    /\ pc = "idle"
    /\ priority_frames = << >>
    /\ uniform_frames = << >>
    /\ all_candidates = << >>
    /\ final_frames = << >>
    /\ pending = << >>
    /\ a_keyframes = << >>
    /\ a_sessions = << >>
    /\ a_evidence_packs = << >>
    /\ profile = NoProfile
    /\ uploads = 0
    /\ last = NoResult
    /\ frame = EmptyFrame
    /\ scored = << >>
    /\ calls = << >>
    /\ handlers = NoHandlers
    /\ a_reports = {}

NextExtract ==
    \/ ExtractOpen
    \/ ExtractOpenFails
    \/ ExtractRuleScan
    \/ ExtractUniform
    \/ ExtractMerge
    \/ ExtractSave
    \/ ExtractSaveFails
    \/ ExtractCommit
    \/ ExtractCommitFails

SpecExtract == InitExtract /\ [][NextExtract]_vars

(***************************************************************************)
(* Semantic tags (app/models/evidence_pack.py)                             *)
(***************************************************************************)
ToothSide == {"upper", "lower", "left", "right", "unknown"}
ToothType == {"anterior", "posterior", "unknown"}
Region == {"occlusal", "interproximal", "gum", "lingual", "buccal", "unknown"}

Tags(s, t, r) == [side |-> s, tooth_type |-> t, region |-> r]

(***************************************************************************)
(* The store: a_sessions, a_keyframes, a_evidence_packs and the profile of *)
(* the one user.  A session id is the session's place in a_sessions, a     *)
(* keyframe id the row's place in a_keyframes.  A session without a zone   *)
(* has zone_id 0.                                                          *)
(***************************************************************************)
ZONE_COUNT == 7
Zones == 1..ZONE_COUNT

EmptyStore ==
    [sessions |-> << >>, keyframes |-> << >>, packs |-> << >>, profile |-> NoProfile]

SessionRow(type, zone, status) ==
    [user_id |-> "user", session_type |-> type, zone_id |-> zone,
     processing_status |-> status]

\* the rows extract_keyframes commits for a video whose kept frames carry these tags
BaselineRows(sid, tags) ==
    [p \in DOMAIN tags |->
        [session_id |-> sid, frame_index |-> p - 1,
         extraction_strategy |-> "uniform_sampled", anomaly_score |-> 0,
         meta_tags |-> tags[p]]]

\* ProfileManager.get_or_create_profile
get_or_create_profile(pr) == IF pr.exists THEN pr ELSE [NoProfile EXCEPT !.exists = TRUE]

\* ProfileManager.mark_baseline_completed: the zone is entered in baseline_zone_map,
\* and the baseline counts as completed once the map holds all seven zones
mark_baseline_completed(pr, zone, sid) ==
    LET p == get_or_create_profile(pr)
        baseline_map == p.baseline_zone_map \cup {zone}
    IN  [p EXCEPT !.baseline_zone_map = baseline_map,
                  !.baseline_completed =
                      IF Cardinality(baseline_map) = ZONE_COUNT THEN TRUE ELSE @]

\* VideoIngestionService.update_session_status, as upload_baseline calls it: the
\* session's processing_status becomes the given status
update_session_status(sessions, sid, status) ==
    [sessions EXCEPT ![sid].processing_status = status]

(***************************************************************************)
(* FrameMatcherService                                                     *)
(***************************************************************************)
WEIGHT_SIDE == 350
WEIGHT_TOOTH_TYPE == 350
WEIGHT_REGION == 300
MIN_MATCH_SCORE == 500

\* FrameMetaTags(**meta_tags): the three axes the matcher reads; a key the stored
\* dictionary lacks takes the default "unknown"
parse_meta_tags(m) ==
    Tags(IF "side" \in DOMAIN m THEN m.side ELSE "unknown",
         IF "tooth_type" \in DOMAIN m THEN m.tooth_type ELSE "unknown",
         IF "region" \in DOMAIN m THEN m.region ELSE "unknown")

\* an axis on which an unknown tag earns nothing
AxisScoreWithoutPartial(qc, bl, weight) ==
    IF qc = bl /\ qc # "unknown" THEN weight ELSE 0

\* one axis of _calculate_structural_match_score
AxisScore(qc, bl, weight) ==
    IF qc = bl /\ qc # "unknown" THEN weight
    ELSE IF qc = "unknown" \/ bl = "unknown" THEN (weight * 3) \div 10
    ELSE 0

calculate_structural_match_score(qc_tags, baseline_tags) ==
    Min(AxisScore(qc_tags.side, baseline_tags.side, WEIGHT_SIDE)
          + AxisScore(qc_tags.tooth_type, baseline_tags.tooth_type, WEIGHT_TOOTH_TYPE)
          + AxisScore(qc_tags.region, baseline_tags.region, WEIGHT_REGION),
        1000)

\* a query that leaves out the filters on session_type and processing_status
AllSessions(sessions, reversed) ==
    LET ids == [i \in DOMAIN sessions |-> i]
    IN  IF reversed THEN [i \in DOMAIN ids |-> ids[Len(ids) + 1 - i]] ELSE ids

\* ids of the completed baseline sessions.  The query has no ORDER BY: the rows
\* come in the order they were inserted or, reversed, in the opposite order.
BaselineSessions(sessions, reversed) ==
    LET ids == SelectSeq([i \in DOMAIN sessions |-> i],
                         LAMBDA i : /\ sessions[i].session_type = "baseline"
                                    /\ sessions[i].processing_status = "completed")
    IN  IF reversed THEN [i \in DOMAIN ids |-> ids[Len(ids) + 1 - i]] ELSE ids

\* the keyframes of a session, ordered by frame_index; each with its id
SessionKeyframes(keyframes, sid) ==
    LET ids == SelectSeq([i \in DOMAIN keyframes |-> i],
                         LAMBDA i : keyframes[i].session_id = sid)
        rows == [k \in DOMAIN ids |->
                    [id |-> ids[k], session_id |-> sid,
                     frame_index |-> keyframes[ids[k]].frame_index,
                     meta_tags |-> keyframes[ids[k]].meta_tags]]
    IN  SortByIndex(rows)

\* _get_user_baseline_frames: the baseline frames grouped by zone.  zones lists
\* the zones in the order the dictionary got them, frames[z] the frames of zone z in
\* the order they were appended.
RECURSIVE GroupByZone(_, _, _, _)
GroupByZone(sessions, keyframes, ids, acc) ==
    IF ids = << >> THEN acc
    ELSE LET sid == Head(ids)
             z == sessions[sid].zone_id
         IN  IF z = 0 THEN GroupByZone(sessions, keyframes, Tail(ids), acc)
             ELSE GroupByZone(sessions, keyframes, Tail(ids),
                    [zones |-> IF z \in Range(acc.zones) THEN acc.zones
                               ELSE Append(acc.zones, z),
                     frames |-> [acc.frames EXCEPT
                                   ![z] = @ \o SessionKeyframes(keyframes, sid)]])

get_user_baseline_frames(db, reversed) ==
    GroupByZone(db.sessions, db.keyframes, BaselineSessions(db.sessions, reversed),
                [zones |-> << >>, frames |-> [z \in Zones |-> << >>]])

\* the (frame, zone) pairs in the order _find_best_baseline_match visits them
RECURSIVE VisitOrder(_, _)
VisitOrder(byZone, k) ==
    IF k > Len(byZone.zones) THEN << >>
    ELSE LET z == byZone.zones[k]
         IN  [i \in DOMAIN byZone.frames[z] |-> [frame |-> byZone.frames[z][i], zone |-> z]]
                \o VisitOrder(byZone, k + 1)

\* the loop's test: a frame replaces the best so far
AcceptsAnyImprovement(score, best_score) == score > best_score

\* a loop that settles for the first frame reaching the threshold
AcceptsFirstAbove(score, best_score) == best_score = 0 /\ score >= MIN_MATCH_SCORE

Accepts(score, best_score) == score > best_score /\ score >= MIN_MATCH_SCORE

NoMatch == [found |-> FALSE]

BaselineFrameReference(c, score) ==
    [found |-> TRUE, baseline_frame_id |-> c.frame.id,
     baseline_session_id |-> c.frame.session_id,
     baseline_zone_id |-> c.zone, matching_score |-> score]

RECURSIVE BestFrom(_, _, _, _, _)
BestFrom(qc_tags, visit, k, best_score, best) ==
    IF k > Len(visit) THEN best
    ELSE LET score == calculate_structural_match_score(
                          qc_tags, parse_meta_tags(visit[k].frame.meta_tags))
         IN  IF Accepts(score, best_score)
             THEN BestFrom(qc_tags, visit, k + 1, score,
                           BaselineFrameReference(visit[k], score))
             ELSE BestFrom(qc_tags, visit, k + 1, best_score, best)

find_best_baseline_match(qc_meta_tags, byZone) ==
    BestFrom(parse_meta_tags(qc_meta_tags), VisitOrder(byZone, 1), 1, 0, NoMatch)

\* match_frames_to_baseline: frame number i of the quick check is mapped to its
\* reference, or to NoMatch when the dictionary has no entry for it
match_frames_to_baseline(db, qc, reversed) ==
    LET byZone == get_user_baseline_frames(db, reversed)
    IN  IF byZone.zones = << >> THEN [i \in DOMAIN qc |-> NoMatch]
        ELSE [i \in DOMAIN qc |-> find_best_baseline_match(qc[i], byZone)]

MatchedRefs(matches) == SelectSeq(matches, LAMBDA m : m.found)

\* build_baseline_reference: the mode chosen from the numbers of matches and frames
ModeOfMatches(nMatches, nFrames) ==
    IF nMatches = 0 THEN "none"
    ELSE IF nMatches < nFrames \div 2 THEN "partial"
    ELSE "full"

BaselineReference(has, refs, mode) ==
    [has_baseline |-> has, matched_baseline_frames |-> refs, comparison_mode |-> mode]

build_baseline_reference(db, qc, reversed) ==
    IF ~db.profile.exists \/ ~db.profile.baseline_completed
    THEN BaselineReference(FALSE, << >>, "none")
    ELSE LET refs == MatchedRefs(match_frames_to_baseline(db, qc, reversed))
         IN  BaselineReference(TRUE, refs, ModeOfMatches(Len(refs), Len(qc)))

\* get_zone_middle_frames: per zone that has frames, the frame in the middle
get_zone_middle_frames(db, reversed) ==
    LET byZone == get_user_baseline_frames(db, reversed)
        has == {z \in Zones : byZone.frames[z] # << >>}
    IN  [z \in has |-> byZone.frames[z][(Len(byZone.frames[z]) \div 2) + 1]]

\* build_baseline_reference_simple: the mode chosen from the number of zones
ModeOfZones(n) ==
    IF n >= 6 THEN "full" ELSE IF n >= 3 THEN "partial" ELSE "minimal"

\* the references of the middle frames, by ascending zone
RECURSIVE MiddleRefs(_, _)
MiddleRefs(middle, z) ==
    IF z > ZONE_COUNT THEN << >>
    ELSE (IF z \in DOMAIN middle
          THEN <<BaselineFrameReference([frame |-> middle[z], zone |-> z], 1000)>>
          ELSE << >>) \o MiddleRefs(middle, z + 1)

build_baseline_reference_simple(db, reversed) ==
    IF ~db.profile.exists \/ ~db.profile.baseline_completed
    THEN BaselineReference(FALSE, << >>, "none")
    ELSE LET middle == get_zone_middle_frames(db, reversed)
         IN  IF DOMAIN middle = {} THEN BaselineReference(TRUE, << >>, "none")
             ELSE BaselineReference(TRUE, MiddleRefs(middle, 1),
                                    ModeOfZones(Cardinality(DOMAIN middle)))

(***************************************************************************)
(* EvidencePackGenerator (app/core/evidence_pack)                          *)
(***************************************************************************)
\* the rows of a session in a_keyframes, ordered by frame_index, each with its id
KeyframesOf(keyframes, sid) ==
    LET ids == SelectSeq([i \in DOMAIN keyframes |-> i],
                         LAMBDA i : keyframes[i].session_id = sid)
    IN  SortByIndex([k \in DOMAIN ids |->
                        [id |-> ids[k], session_id |-> sid,
                         frame_index |-> keyframes[ids[k]].frame_index,
                         extraction_strategy |-> keyframes[ids[k]].extraction_strategy,
                         anomaly_score |-> keyframes[ids[k]].anomaly_score,
                         meta_tags |-> keyframes[ids[k]].meta_tags]])

\* FrameMetaTags(**tags_dict): a key the dictionary lacks takes its default
FrameMetaTags(d) ==
    [side |-> IF "side" \in DOMAIN d THEN d.side ELSE "unknown",
     tooth_type |-> IF "tooth_type" \in DOMAIN d THEN d.tooth_type ELSE "unknown",
     region |-> IF "region" \in DOMAIN d THEN d.region ELSE "unknown",
     detected_issues |-> IF "detected_issues" \in DOMAIN d THEN d.detected_issues
                         ELSE << >>,
     confidence_score |-> IF "confidence_score" \in DOMAIN d THEN d.confidence_score
                          ELSE 0,
     is_verified |-> IF "is_verified" \in DOMAIN d THEN d.is_verified ELSE FALSE]

\* the path of a keyframe's image stands for the image
ImagePath(kf) == <<kf.session_id, kf.frame_index>>

KeyframeData(kf) ==
    [frame_id |-> kf.id, image_url |-> ImagePath(kf),
     extraction_strategy |-> kf.extraction_strategy,
     anomaly_score |-> kf.anomaly_score,
     meta_tags |-> FrameMetaTags(kf.meta_tags)]

\* a loop that leaves out the keyframes whose image is gone
frame_data_of_stored_images(keyframes, gone) ==
    LET present == SelectSeq(keyframes, LAMBDA kf : ImagePath(kf) \notin gone)
    IN  [k \in DOMAIN present |-> KeyframeData(present[k])]

\* the loop over the keyframes: a missing image is only warned about
frame_data_list(keyframes, gone) ==
    [k \in DOMAIN keyframes |-> KeyframeData(keyframes[k])]

EvidencePack(sid, session, frames, baseline_reference) ==
    [session_id |-> sid, user_id |-> session.user_id,
     session_type |-> session.session_type, zone_id |-> session.zone_id,
     total_frames |-> Len(frames), frames |-> frames,
     baseline_reference |-> baseline_reference]

\* the field constraints of the EvidencePack model
ValidEvidencePack(pack) ==
    /\ pack.total_frames >= 1 /\ pack.total_frames <= MAX_KEYFRAMES
    /\ Len(pack.frames) <= MAX_KEYFRAMES
    /\ pack.zone_id \in 0..ZONE_COUNT

\* model_dump(): the declared fields as a dictionary, the frames as dictionaries
model_dump(pack) ==
    [session_id |-> pack.session_id, user_id |-> pack.user_id,
     session_type |-> pack.session_type, zone_id |-> pack.zone_id,
     total_frames |-> pack.total_frames,
     frames |-> [k \in DOMAIN pack.frames |-> pack.frames[k]],
     baseline_reference |-> pack.baseline_reference]

\* EvidencePack(**pack_json): the dictionary read back into the model
EvidencePackOfJson(json) ==
    [session_id |-> json.session_id, user_id |-> json.user_id,
     session_type |-> json.session_type, zone_id |-> json.zone_id,
     total_frames |-> json.total_frames,
     frames |-> [k \in DOMAIN json.frames |->
                    [json.frames[k] EXCEPT !.meta_tags = FrameMetaTags(@)]],
     baseline_reference |-> json.baseline_reference]

\* the check constraints of a_evidence_packs
AcceptedByTable(row) ==
    /\ row.total_frames > 0 /\ row.total_frames <= MAX_KEYFRAMES
    /\ row.comparison_mode \in {"none", "partial", "full"}

\* the place of the session's row in a_evidence_packs, 0 when it has none
PackPlace(packs, sid) ==
    IF \E i \in DOMAIN packs : packs[i].session_id = sid
    THEN CHOOSE i \in DOMAIN packs :
            /\ packs[i].session_id = sid
            /\ \A j \in DOMAIN packs : packs[j].session_id = sid => i <= j
    ELSE 0

\* existing_pack is updated in place, a new row is added at the end
SavePack(packs, row) ==
    IF PackPlace(packs, row.session_id) # 0
    THEN [packs EXCEPT ![PackPlace(packs, row.session_id)] = row]
    ELSE Append(packs, row)

Raises(db, error) == [raised |-> error, packs |-> db.packs]

\* generate_evidence_pack from the conversion of the keyframes on
assemble_evidence_pack(db, sid, gone, reversed) ==
    LET session == db.sessions[sid]
        keyframes == KeyframesOf(db.keyframes, sid)
        frames == frame_data_list(keyframes, gone)
        quick == session.session_type = "quick_check"
        baseline_reference ==
            IF quick THEN build_baseline_reference_simple(db, reversed) ELSE NoDict
        comparison_mode == IF quick THEN baseline_reference.comparison_mode ELSE "none"
        pack == EvidencePack(sid, session, frames, baseline_reference)
        row == [session_id |-> sid, pack_json |-> model_dump(pack),
                total_frames |-> Len(frames),
                baseline_reference_json |-> baseline_reference,
                comparison_mode |-> comparison_mode]
    IN  IF frames = << >> THEN Raises(db, "EvidencePackError")
        ELSE IF ~ValidEvidencePack(pack) THEN Raises(db, "ValidationError")
        ELSE IF ~AcceptedByTable(row) THEN Raises(db, "IntegrityError")
        ELSE [raised |-> "none", pack |-> pack,
              warnings |-> {ImagePath(keyframes[k]) : k \in DOMAIN keyframes} \cap gone,
              packs |-> SavePack(db.packs, row)]

\* a generator that does not look whether the session has keyframes
generate_whatever_the_keyframes(db, sid, gone, reversed) ==
    IF sid \notin DOMAIN db.sessions THEN Raises(db, "EvidencePackError")
    ELSE LET made == assemble_evidence_pack(db, sid, gone, reversed)
         IN  IF made.raised = "EvidencePackError"
             THEN [raised |-> "none", pack |-> EvidencePack(sid, db.sessions[sid], << >>, NoDict),
                   warnings |-> {},
                   packs |-> SavePack(db.packs,
                                [session_id |-> sid,
                                 pack_json |-> EvidencePack(sid, db.sessions[sid], << >>, NoDict),
                                 total_frames |-> 0,
                                 baseline_reference_json |-> NoDict,
                                 comparison_mode |-> "none"])]
             ELSE made

\* generate_evidence_pack.  gone holds the image paths that do not exist when
\* the call looks; the outcome names the exception raised ("none": the pack is
\* returned) and the table as the call leaves it.
generate_evidence_pack(db, sid, gone, reversed) ==
    IF sid \notin DOMAIN db.sessions THEN Raises(db, "EvidencePackError")
    ELSE IF KeyframesOf(db.keyframes, sid) = << >> THEN Raises(db, "EvidencePackError")
    ELSE assemble_evidence_pack(db, sid, gone, reversed)

\* a lookup that takes the first row of the table, whatever its session
get_first_evidence_pack(packs, sid) ==
    IF packs = << >> THEN [raised |-> "EvidencePackError"]
    ELSE [raised |-> "none", pack |-> EvidencePackOfJson(packs[1].pack_json)]

\* get_evidence_pack_by_session: EvidencePack(**db_pack.pack_json)
get_evidence_pack_by_session(packs, sid) ==
    IF PackPlace(packs, sid) = 0 THEN [raised |-> "EvidencePackError"]
    ELSE [raised |-> "none",
          pack |-> EvidencePackOfJson(packs[PackPlace(packs, sid)].pack_json)]

\* upload_baseline, from ingestion to the response.  failAt names the step that
\* raises ("none": no step does); the handler then rolls back what is uncommitted
\* and sets the session to failed.
\*   extract   extract_keyframes raises: no keyframe row is committed
\*   pack      generate_evidence_pack raises: the keyframes stay, no pack is written
\*   mark      mark_baseline_completed raises at its commit, after the session was
\*             set to completed: the profile exists, the zone map is unchanged
\*   progress  the progress query after mark_baseline_completed raises
upload_baseline(db, zone, tags, failAt) ==
    LET sid == Len(db.sessions) + 1
        ingested == Append(db.sessions, SessionRow("baseline", zone, "pending"))
        processing == update_session_status(ingested, sid, "processing")
        reached == IF failAt \in {"extract", "pack"} THEN processing
                   ELSE update_session_status(processing, sid, "completed")
        rows == IF failAt = "extract" THEN << >> ELSE BaselineRows(sid, tags)
        pr == CASE failAt \in {"none", "progress"} ->
                     mark_baseline_completed(db.profile, zone, sid)
                [] failAt = "mark" -> get_or_create_profile(db.profile)
                [] OTHER -> db.profile
        extracted == [db EXCEPT !.sessions = processing, !.keyframes = @ \o rows]
    IN  [sessions |-> IF failAt = "none" THEN reached
                      ELSE update_session_status(reached, sid, "failed"),
         keyframes |-> db.keyframes \o rows,
         packs |-> IF failAt \in {"extract", "pack"} THEN db.packs
                   ELSE generate_evidence_pack(extracted, sid, {}, FALSE).packs,
         profile |-> pr]

\* ProfileManager.record_quick_check
record_quick_check(pr) ==
    [get_or_create_profile(pr) EXCEPT !.total_quick_checks = @ + 1]

\* upload_quick_check, from ingestion to the response.  failAt names the step
\* that raises by itself ("none": no step does); generate_evidence_pack also
\* raises when the session has no keyframes or the table refuses the row.
\*   extract   extract_keyframes raises: no keyframe row is committed
\*   pack      generate_evidence_pack raises before its commit
\*   record    record_quick_check raises, after the session was set to completed
upload_quick_check(db, tags, failAt, reversed) ==
    LET sid == Len(db.sessions) + 1
        ingested == Append(db.sessions, SessionRow("quick_check", 0, "pending"))
        processing == update_session_status(ingested, sid, "processing")
        rows == IF failAt = "extract" THEN << >> ELSE BaselineRows(sid, tags)
        extracted == [db EXCEPT !.sessions = processing, !.keyframes = @ \o rows]
        made == IF failAt \in {"extract", "pack"} THEN Raises(db, "Exception")
                ELSE generate_evidence_pack(extracted, sid, {}, reversed)
        done == made.raised = "none"
    IN  [sessions |-> IF done /\ failAt = "none"
                      THEN update_session_status(processing, sid, "completed")
                      ELSE update_session_status(processing, sid, "failed"),
         keyframes |-> db.keyframes \o rows,
         packs |-> made.packs,
         profile |-> IF done /\ failAt = "none" THEN record_quick_check(db.profile)
                     ELSE db.profile]

(***************************************************************************)
(* Baseline store and matcher as a state machine                           *)
(***************************************************************************)
MaxUploads == 1
MaxQc == 4

\* the tags of the frames kept from a standard recording of each zone
ZoneTags(z) ==
    CASE z = 1 -> <<Tags("upper", "posterior", "occlusal"), Tags("left", "posterior", "buccal")>>
      [] z = 2 -> <<Tags("upper", "anterior", "gum")>>
      [] z = 3 -> <<Tags("upper", "posterior", "occlusal"), Tags("right", "posterior", "buccal")>>
      [] z = 4 -> <<Tags("lower", "posterior", "occlusal"), Tags("left", "posterior", "lingual")>>
      [] z = 5 -> <<Tags("lower", "anterior", "gum")>>
      [] z = 6 -> <<Tags("lower", "posterior", "occlusal"), Tags("right", "posterior", "lingual")>>
      [] OTHER -> <<Tags("unknown", "posterior", "unknown")>>

\* what a recording may be tagged with: as expected for its zone, as front upper
\* teeth whatever the zone, or nothing at all (no keyframe)
UploadTags(z) == {ZoneTags(z), <<Tags("upper", "anterior", "gum")>>, << >>}

FailurePoints == {"none", "extract", "pack", "mark", "progress"}

\* generate_evidence_pack raises when the session has no keyframes
CanFailAt(tags, failAt) == tags = << >> => failAt \in {"extract", "pack"}

\* the store after the zones 1..k were recorded in turn, the uploads of the last
\* f of the n zones having failed at the progress query
RECURSIVE History(_, _, _)
History(k, n, f) ==
    IF k = 0 THEN EmptyStore
    ELSE upload_baseline(History(k - 1, n, f), k, ZoneTags(k),
                         IF k > n - f THEN "progress" ELSE "none")

Histories == {History(n, n, f) : <<n, f>> \in {p \in (0..ZONE_COUNT) \X (0..ZONE_COUNT) : p[2] <= p[1]}}

Store ==
    [sessions |-> a_sessions, keyframes |-> a_keyframes, packs |-> a_evidence_packs,
     profile |-> profile]

\* the tags of quick-check frames
QcSides == {"upper", "lower", "unknown"}
QcTypes == {"anterior", "posterior", "unknown"}
QcRegions == {"gum", "occlusal", "unknown"}
QcTags == {Tags(s, t, r) : <<s, t, r>> \in QcSides \X QcTypes \X QcRegions}

Repeat(x, n) == [i \in 1..n |-> x]

\* quick checks: one frame of any tags, or up to MaxQc frames of which some show
\* the front upper gum and the rest an interproximal view of unknown teeth
QuickChecks ==
    {<<t>> : t \in QcTags}
      \cup {Repeat(Tags("upper", "anterior", "gum"), p[1])
              \o Repeat(Tags("unknown", "unknown", "interproximal"), p[2]) :
            p \in {q \in (0..MaxQc) \X (0..MaxQc) : q[1] + q[2] >= 2 /\ q[1] + q[2] <= MaxQc}}

UploadBaseline ==
    /\ last = NoResult
    /\ uploads < MaxUploads
    /\ \E zone \in Zones, failAt \in FailurePoints :
         \E tags \in UploadTags(zone) :
            /\ CanFailAt(tags, failAt)
            /\ LET db == upload_baseline(Store, zone, tags, failAt)
               IN  /\ a_sessions' = db.sessions
                   /\ a_keyframes' = db.keyframes
                   /\ a_evidence_packs' = db.packs
                   /\ profile' = db.profile
    /\ uploads' = uploads + 1
    /\ UNCHANGED <<extractVars, last, analyzeVars, handlers, a_reports>>

\* the frames kept from a quick check: none, one or two
QuickCheckTags ==
    {<< >>, <<Tags("upper", "anterior", "gum")>>,
     <<Tags("lower", "posterior", "occlusal"), Tags("left", "posterior", "buccal")>>}

QuickFailurePoints == {"none", "extract", "pack", "record"}

UploadQuickCheck ==
    /\ last = NoResult
    /\ uploads < MaxUploads
    /\ \E tags \in QuickCheckTags, failAt \in QuickFailurePoints, rev \in BOOLEAN :
         LET db == upload_quick_check(Store, tags, failAt, rev)
         IN  /\ a_sessions' = db.sessions
             /\ a_keyframes' = db.keyframes
             /\ a_evidence_packs' = db.packs
             /\ profile' = db.profile
    /\ uploads' = uploads + 1
    /\ UNCHANGED <<extractVars, last, analyzeVars, handlers, a_reports>>

MatchFramesToBaseline ==
    /\ last = NoResult
    /\ \E qc \in QuickChecks, rev \in BOOLEAN :
         last' = [op |-> "match", qc |-> qc, reversed |-> rev,
                  matches |-> match_frames_to_baseline(Store, qc, rev)]
    /\ UNCHANGED <<extractVars, a_keyframes, storeVars, analyzeVars, handlers, a_reports>>

BuildBaselineReference ==
    /\ last = NoResult
    /\ \E qc \in QuickChecks, rev \in BOOLEAN :
         last' = [op |-> "build", qc |-> qc, reversed |-> rev,
                  reference |-> build_baseline_reference(Store, qc, rev)]
    /\ UNCHANGED <<extractVars, a_keyframes, storeVars, analyzeVars, handlers, a_reports>>

\* a variant that fetches the profile with get_or_create_profile, which adds and
\* commits the row of a user who has none
BuildBaselineReferenceSimpleCreatingProfile ==
    /\ last = NoResult
    /\ \E rev \in BOOLEAN :
         last' = [op |-> "simple", reversed |-> rev,
                  reference |-> build_baseline_reference_simple(Store, rev)]
    /\ profile' = get_or_create_profile(profile)
    /\ UNCHANGED <<extractVars, a_keyframes, a_sessions, a_evidence_packs, uploads,
                   analyzeVars, handlers, a_reports>>

BuildBaselineReferenceSimple ==
    /\ last = NoResult
    /\ \E rev \in BOOLEAN :
         last' = [op |-> "simple", reversed |-> rev,
                  reference |-> build_baseline_reference_simple(Store, rev)]
    /\ UNCHANGED <<extractVars, a_keyframes, storeVars, analyzeVars, handlers, a_reports>>

GetZoneMiddleFrames ==
    /\ last = NoResult
    /\ \E rev \in BOOLEAN :
         last' = [op |-> "middle", reversed |-> rev,
                  middle |-> get_zone_middle_frames(Store, rev)]
    /\ UNCHANGED <<extractVars, a_keyframes, storeVars, analyzeVars, handlers, a_reports>>

\* the result goes to the caller
Return ==
    /\ last # NoResult
    /\ last' = NoResult
    /\ UNCHANGED <<extractVars, a_keyframes, storeVars, analyzeVars, handlers, a_reports>>

InitMatch ==
    /\ video = NoVideo
    /\ pc = "idle"
    /\ priority_frames = << >>
    /\ uniform_frames = << >>
    /\ all_candidates = << >>
    /\ final_frames = << >>
    /\ pending = << >>
    /\ \E db \in Histories :
         /\ a_sessions = db.sessions
         /\ a_keyframes = db.keyframes
         /\ a_evidence_packs = db.packs
         /\ profile = db.profile
    /\ uploads = 0
    /\ last = NoResult
    /\ frame = EmptyFrame
    /\ scored = << >>
    /\ calls = << >>
    /\ handlers = NoHandlers
    /\ a_reports = {}

NextMatch ==
    \/ UploadBaseline
    \/ UploadQuickCheck
    \/ MatchFramesToBaseline
    \/ BuildBaselineReference
    \/ BuildBaselineReferenceSimple
    \/ GetZoneMiddleFrames
    \/ Return

SpecMatch == InitMatch /\ [][NextMatch]_vars

(***************************************************************************)
(* Evidence packs as a state machine: recordings are uploaded, packs are   *)
(* generated again for any session id and read back.                       *)
(***************************************************************************)
\* session ids a caller may pass: those of the store and one that does not exist
SessionIds == 1..(Len(a_sessions) + 1)

\* the image paths of a session's keyframes
ImagesOf(sid) ==
    {ImagePath(a_keyframes[i]) : i \in {j \in DOMAIN a_keyframes : a_keyframes[j].session_id = sid}}

\* images that may be gone when a pack is generated: none, those of the first
\* frame, or all of them
MissingImages(sid) == {{}, ImagesOf(sid) \cap {<<sid, 0>>}, ImagesOf(sid)}

GenerateEvidencePack ==
    /\ last = NoResult
    /\ \E sid \in SessionIds, rev \in BOOLEAN :
         \E gone \in MissingImages(sid) :
            LET outcome == generate_evidence_pack(Store, sid, gone, rev)
            IN  /\ last' = [op |-> "generate", sid |-> sid, gone |-> gone,
                            reversed |-> rev, outcome |-> outcome,
                            before |-> a_evidence_packs]
                /\ a_evidence_packs' = outcome.packs
    /\ UNCHANGED <<extractVars, a_keyframes, a_sessions, profile, uploads, analyzeVars, handlers, a_reports>>

\* the pack is read, at once after a generation or at any other time
GetEvidencePackBySession ==
    /\ last.op \in {"none", "generate"}
    /\ \E sid \in SessionIds :
         last' = [op |-> "get", sid |-> sid, after |-> last,
                  outcome |-> get_evidence_pack_by_session(a_evidence_packs, sid)]
    /\ UNCHANGED <<extractVars, a_keyframes, storeVars, analyzeVars, handlers, a_reports>>

\* the complete baseline after zone 1 was recorded once more
ReRecorded ==
    upload_baseline(History(ZONE_COUNT, ZONE_COUNT, 0), 1,
                    <<Tags("upper", "anterior", "gum")>>, "none")

InitPack ==
    /\ video = NoVideo
    /\ pc = "idle"
    /\ priority_frames = << >>
    /\ uniform_frames = << >>
    /\ all_candidates = << >>
    /\ final_frames = << >>
    /\ pending = << >>
    /\ \E db \in Histories \cup {ReRecorded} :
         /\ a_sessions = db.sessions
         /\ a_keyframes = db.keyframes
         /\ a_evidence_packs = db.packs
         /\ profile = db.profile
    /\ uploads = 0
    /\ last = NoResult
    /\ frame = EmptyFrame
    /\ scored = << >>
    /\ calls = << >>
    /\ handlers = NoHandlers
    /\ a_reports = {}

NextPack ==
    \/ UploadBaseline
    \/ UploadQuickCheck
    \/ GenerateEvidencePack
    \/ GetEvidencePackBySession
    \/ Return

SpecPack == InitPack /\ [][NextPack]_vars

(***************************************************************************)
(* Seven upload_baseline requests of one user, one per zone, running side  *)
(* by side.  Each has ingested, extracted, generated its pack and set its  *)
(* session to completed; their mark_baseline_completed steps interleave.   *)
(* Every request has its own database session: what it read of the profile *)
(* row stays as it was read until the request writes.                      *)
(***************************************************************************)
\* upload_baseline down to update_session_status(session_id, "completed")
upload_baseline_until_mark(db, zone, tags) ==
    LET sid == Len(db.sessions) + 1
        ingested == Append(db.sessions, SessionRow("baseline", zone, "pending"))
        processing == update_session_status(ingested, sid, "processing")
        extracted == [db EXCEPT !.sessions = processing,
                                !.keyframes = @ \o BaselineRows(sid, tags)]
    IN  [extracted EXCEPT
            !.sessions = update_session_status(processing, sid, "completed"),
            !.packs = generate_evidence_pack(extracted, sid, {}, FALSE).packs]

RECURSIVE Recorded(_)
Recorded(k) ==
    IF k = 0 THEN EmptyStore
    ELSE upload_baseline_until_mark(Recorded(k - 1), k, ZoneTags(k))

\* where a request stands, and the baseline_zone_map its profile object holds
Handler(at, map) == [pc |-> at, baseline_zone_map |-> map]

\* requests that stand between their query and their commit at the same time
MaxInFlight == 2

InFlight == {z \in Zones : handlers[z].pc \in {"create", "write"}}

\* get_or_create_profile, the query: the row is loaded, or there is none yet
MarkQuery(z) ==
    /\ handlers[z].pc = "mark"
    /\ Cardinality(InFlight) < MaxInFlight
    /\ handlers' = [handlers EXCEPT ![z] =
                        IF profile.exists THEN Handler("write", profile.baseline_zone_map)
                        ELSE Handler("create", {})]
    /\ UNCHANGED <<extractVars, a_keyframes, storeVars, last, analyzeVars, a_reports>>

\* get_or_create_profile, add and commit of the new row
MarkCreate(z) ==
    /\ handlers[z].pc = "create"
    /\ ~profile.exists
    /\ profile' = get_or_create_profile(profile)
    /\ handlers' = [handlers EXCEPT ![z] = Handler("write", {})]
    /\ UNCHANGED <<extractVars, a_keyframes, a_sessions, a_evidence_packs, uploads,
                   last, analyzeVars, a_reports>>

\* the commit of the new row meets the row another request has committed: the
\* primary key refuses it, the handler rolls back and sets its session to failed
MarkCreateFails(z) ==
    /\ handlers[z].pc = "create"
    /\ profile.exists
    /\ a_sessions' = update_session_status(a_sessions, z, "failed")
    /\ handlers' = [handlers EXCEPT ![z] = Handler("failed", {})]
    /\ UNCHANGED <<extractVars, a_keyframes, a_evidence_packs, profile, uploads,
                   last, analyzeVars, a_reports>>

\* mark_baseline_completed from the copy of the map to the commit: the row gets
\* the map the request read, with its zone added
write_back_map(pr, seen, zone) ==
    LET baseline_map == seen \cup {zone}
    IN  [pr EXCEPT !.baseline_zone_map = baseline_map,
                   !.baseline_completed =
                       IF Cardinality(baseline_map) = ZONE_COUNT THEN TRUE ELSE @]

\* the map is written back and committed; the progress is read and the response sent
MarkWrite(z) ==
    /\ handlers[z].pc = "write"
    /\ profile' = write_back_map(profile, handlers[z].baseline_zone_map, z)
    /\ handlers' = [handlers EXCEPT ![z] = Handler("done", {})]
    /\ UNCHANGED <<extractVars, a_keyframes, a_sessions, a_evidence_packs, uploads,
                   last, analyzeVars, a_reports>>

InitMark ==
    /\ video = NoVideo
    /\ pc = "idle"
    /\ priority_frames = << >>
    /\ uniform_frames = << >>
    /\ all_candidates = << >>
    /\ final_frames = << >>
    /\ pending = << >>
    /\ a_sessions = Recorded(ZONE_COUNT).sessions
    /\ a_keyframes = Recorded(ZONE_COUNT).keyframes
    /\ a_evidence_packs = Recorded(ZONE_COUNT).packs
    /\ profile \in {NoProfile, get_or_create_profile(NoProfile)}
    /\ uploads = ZONE_COUNT
    /\ last = NoResult
    /\ frame = EmptyFrame
    /\ scored = << >>
    /\ calls = << >>
    /\ handlers = [z \in Zones |-> Handler("mark", {})]
    /\ a_reports = {}

NextMark ==
    \/ \E z \in Zones : MarkQuery(z)
    \/ \E z \in Zones : MarkCreate(z)
    \/ \E z \in Zones : MarkCreateFails(z)
    \/ \E z \in Zones : MarkWrite(z)

SpecMark == InitMark /\ [][NextMark]_vars

(***************************************************************************)
(* The status of a session: an upload request taken commit by commit, and  *)
(* report requests arriving at any time between its commits.               *)
(***************************************************************************)
MaxRequests == 1
MaxReports == 2

Request(at, sid, type, zone, tags, reversed) ==
    [pc |-> at, sid |-> sid, session_type |-> type, zone_id |-> zone, tags |-> tags,
     reversed |-> reversed]

Running == handlers # NoHandlers
Req == handlers[1]
At(at) == Running /\ Req.pc = at
Moved(at) == <<[Req EXCEPT !.pc = at]>>

\* ingest_video: the session row is committed as pending
IngestVideo ==
    /\ ~Running
    /\ uploads < MaxRequests
    /\ \E type \in {"baseline", "quick_check"}, rev \in BOOLEAN :
         \E zone \in IF type = "baseline" THEN Zones ELSE {0} :
            \E tags \in IF type = "baseline" THEN UploadTags(zone) ELSE QuickCheckTags :
               /\ a_sessions' = Append(a_sessions, SessionRow(type, zone, "pending"))
               /\ handlers' = <<Request("processing", Len(a_sessions) + 1, type, zone,
                                        tags, rev)>>
    /\ uploads' = uploads + 1
    /\ UNCHANGED <<extractVars, a_keyframes, a_evidence_packs, profile, last, analyzeVars, a_reports>>

\* update_session_status(session_id, "processing")
SetProcessing ==
    /\ At("processing")
    /\ a_sessions' = update_session_status(a_sessions, Req.sid, "processing")
    /\ handlers' = Moved("extract")
    /\ UNCHANGED <<extractVars, a_keyframes, a_evidence_packs, profile, uploads, last, analyzeVars, a_reports>>

\* extract_keyframes: the rows of the kept frames are committed
ExtractKeyframes ==
    /\ At("extract")
    /\ a_keyframes' = a_keyframes \o BaselineRows(Req.sid, Req.tags)
    /\ handlers' = Moved("pack")
    /\ UNCHANGED <<extractVars, a_sessions, a_evidence_packs, profile, uploads, last, analyzeVars, a_reports>>

\* what the handler's except branch leaves: the session is set to failed, unless
\* that update fails too, which the handler lets pass
except_branch(sessions, sid, updated) ==
    IF updated THEN update_session_status(sessions, sid, "failed") ELSE sessions

\* generate_evidence_pack: the pack is committed, or the call raises
GeneratePack ==
    /\ At("pack")
    /\ LET outcome == generate_evidence_pack(Store, Req.sid, {}, Req.reversed)
       IN  /\ a_evidence_packs' = outcome.packs
           /\ IF outcome.raised = "none"
              THEN /\ handlers' = Moved("completed")
                   /\ UNCHANGED a_sessions
              ELSE /\ handlers' = NoHandlers
                   /\ \E updated \in BOOLEAN :
                        a_sessions' = except_branch(a_sessions, Req.sid, updated)
    /\ UNCHANGED <<extractVars, a_keyframes, profile, uploads, last, analyzeVars, a_reports>>

\* update_session_status(session_id, "completed")
SetCompleted ==
    /\ At("completed")
    /\ a_sessions' = update_session_status(a_sessions, Req.sid, "completed")
    /\ handlers' = Moved("profile")
    /\ UNCHANGED <<extractVars, a_keyframes, a_evidence_packs, profile, uploads, last, analyzeVars, a_reports>>

\* mark_baseline_completed or record_quick_check, and the response
UpdateProfile ==
    /\ At("profile")
    /\ profile' = IF Req.session_type = "baseline"
                  THEN mark_baseline_completed(profile, Req.zone_id, Req.sid)
                  ELSE record_quick_check(profile)
    /\ handlers' = NoHandlers
    /\ UNCHANGED <<extractVars, a_keyframes, a_sessions, a_evidence_packs, uploads, last, analyzeVars, a_reports>>

\* a step of the handler raises by itself: nothing of the step is committed and
\* the except branch runs
StepRaises ==
    /\ Running
    /\ \E updated \in BOOLEAN :
         a_sessions' = except_branch(a_sessions, Req.sid, updated)
    /\ handlers' = NoHandlers
    /\ UNCHANGED <<extractVars, a_keyframes, a_evidence_packs, profile, uploads, last, analyzeVars, a_reports>>

\* LLMReportGenerator.generate_report: [raised, sessions, reports]
generate_report(db, reports, sid, answered) ==
    IF sid \notin DOMAIN db.sessions \/ ~answered \/ PackPlace(db.packs, sid) = 0
    THEN [raised |-> "LLMClientError", sessions |-> db.sessions, reports |-> reports]
    ELSE [raised |-> "none",
          sessions |-> [db.sessions EXCEPT ![sid].processing_status = "completed"],
          reports |-> reports \cup {sid}]

\* generate_health_report: the pack is read, an existing report is returned,
\* otherwise one is generated
generate_health_report(db, reports, sid, answered) ==
    IF get_evidence_pack_by_session(db.packs, sid).raised # "none"
    THEN [raised |-> "HTTPException", sessions |-> db.sessions, reports |-> reports]
    ELSE IF sid \in reports
    THEN [raised |-> "none", sessions |-> db.sessions, reports |-> reports]
    ELSE generate_report(db, reports, sid, answered)

GenerateHealthReport ==
    /\ Cardinality(a_reports) < MaxReports
    /\ \E sid \in SessionIds, answered \in BOOLEAN :
         LET outcome == generate_health_report(Store, a_reports, sid, answered)
         IN  /\ a_sessions' = outcome.sessions
             /\ a_reports' = outcome.reports
    /\ UNCHANGED <<extractVars, a_keyframes, a_evidence_packs, profile, uploads, last, analyzeVars, handlers>>

InitStatus == InitMatch

NextStatus ==
    \/ IngestVideo
    \/ SetProcessing
    \/ ExtractKeyframes
    \/ GeneratePack
    \/ SetCompleted
    \/ UpdateProfile
    \/ StepRaises
    \/ GenerateHealthReport

SpecStatus == InitStatus /\ [][NextStatus]_vars

(***************************************************************************)
(* The scorer and the classifier on one frame: the frame is scored,        *)
(* classified by analyzers built with and without debug output, through    *)
(* either entry point and in any order with another frame, and stored as   *)
(* the keyframe of a run that kept it.                                     *)
(***************************************************************************)
MaxCalls == 3        \* scorer calls, classifier calls and stores made on one frame

\* coverage ratios handed to the scorer: each threshold, both sides of it, the ends
BlackCoverages == {0, 20, 21, 100, 299, 300, 1000}
YellowCoverages == {0, 15, 16, 70, 1000}
RedCoverages == {0, 80, 81, 120, 1000}

ScorerFrames ==
    {Frame(b, y, r, NoMasks) :
        <<b, y, r>> \in BlackCoverages \X YellowCoverages \X RedCoverages}

\* what the masks may measure
ToothCoverages == {0, 100, 150, 1000}
GumCoverages == {0, 50, 200, 1000}
UpperShares == {0, 500, 1000}
LeftShares == {500, 1000}
\* <<contours, aspect, solidity>>
Shapes == {<<FALSE, 0, 0>>, <<TRUE, 500, 900>>, <<TRUE, 2500, 900>>, <<TRUE, 1000, 700>>,
           <<TRUE, 1000, 900>>}
\* <<texture_var, valleys, oral_cavity, center_cavity>>
Cues == {<<0, 0, 0, 0>>, <<1000, 0, 0, 0>>, <<0, 4, 0, 0>>, <<0, 0, 200, 800>>}
\* <<dark_in_tooth, yellow_plaque, gum_red, defect>>
Findings == {<<0, 0, 0, FALSE>>, <<30, 20, 100, TRUE>>}

MasksOf(tooth, gum, upper, left, shape, cue, finding) ==
    [tooth_white |-> tooth, gum_pink |-> gum, gum_upper |-> upper, tooth_left |-> left,
     contours |-> shape[1], aspect |-> shape[2], solidity |-> shape[3],
     texture_var |-> cue[1], valleys |-> cue[2], oral_cavity |-> cue[3],
     center_cavity |-> cue[4], dark_in_tooth |-> finding[1],
     yellow_plaque |-> finding[2], gum_red |-> finding[3], defect |-> finding[4]]

\* contours and texture are measured on tooth pixels
Measurable(m) == (m.contours \/ m.texture_var > 0 \/ m.valleys > 0) => m.tooth_white > 0

ClassifierFrames ==
    {f \in {Frame(0, 0, 0, MasksOf(t, g, u, l, sh, c, fi)) :
                <<t, g, u, l, sh, c, fi>> \in
                    ToothCoverages \X GumCoverages \X UpperShares \X LeftShares
                        \X Shapes \X Cues \X Findings} :
        Measurable(f.masks)}

AnalyzedFrames ==
    ScorerFrames \cup ClassifierFrames
        \cup {EmptyFrame, DarkFrame, NeutralFrame, RedFrame, InflamedFrame, SevereFrame}

\* KeyframeAnalyzer(debug=False) and KeyframeAnalyzer(debug=True)
Analyzers == <<[debug |-> FALSE], [debug |-> TRUE]>>

\* the frame analysed between two looks at the frame under test
OtherFrame == NeutralFrame

TagsOf(result) ==
    [side |-> result.side, tooth_type |-> result.tooth_type, region |-> result.region,
     detected_issues |-> result.detected_issues,
     confidence_score |-> result.confidence_score]

Steps == Len(scored) + Len(calls) + Len(a_keyframes)

\* a one-frame recording of the frame
Still(f) == Video(1, 1, <<0, 1>>, f, <<0, 0>>)

\* the candidates either track can make of the frame
CandidatesOf(f) ==
    {UniformEntry(0)} \cup {RuleScan(Still(f))[k] : k \in DOMAIN RuleScan(Still(f))}

DetectAnomaly ==
    /\ Steps < MaxCalls
    /\ scored = << >>
    /\ scored' = <<detect_anomaly_opencv(frame)>>
    /\ UNCHANGED <<extractVars, a_keyframes, storeVars, last, frame, calls, handlers, a_reports>>

AnalyzeFrame ==
    /\ Steps < MaxCalls
    /\ \E a \in DOMAIN Analyzers, f \in {frame, OtherFrame} :
            calls' = Append(calls, [analyzer |-> a, api |-> "analyze_frame", image |-> f,
                                    tags |-> TagsOf(analyze_frame(Analyzers[a].debug, f))])
    /\ UNCHANGED <<extractVars, a_keyframes, storeVars, last, frame, scored, handlers, a_reports>>

AnalyzeFrameToMetaTags ==
    /\ Steps < MaxCalls
    /\ \E a \in DOMAIN Analyzers, f \in {frame, OtherFrame} :
            calls' = Append(calls,
                        [analyzer |-> a, api |-> "analyze_frame_to_meta_tags", image |-> f,
                         tags |-> TagsOf(analyze_frame_to_meta_tags(Analyzers[a].debug, f))])
    /\ UNCHANGED <<extractVars, a_keyframes, storeVars, last, frame, scored, handlers, a_reports>>

\* the save loop and the commit of a run that kept one candidate showing the frame
SaveKeyframe ==
    /\ Steps < MaxCalls
    /\ a_keyframes = << >>
    /\ frame # EmptyFrame
    /\ \E e \in CandidatesOf(frame), analysis \in BOOLEAN :
            a_keyframes' = <<KeyframeRow(RunSession, e, frame, analysis)>>
    /\ UNCHANGED <<extractVars, storeVars, last, analyzeVars, handlers, a_reports>>

InitAnalyze ==
    /\ video = NoVideo
    /\ pc = "idle"
    /\ priority_frames = << >>
    /\ uniform_frames = << >>
    /\ all_candidates = << >>
    /\ final_frames = << >>
    /\ pending = << >>
    /\ a_keyframes = << >>
    /\ a_sessions = << >>
    /\ a_evidence_packs = << >>
    /\ profile = NoProfile
    /\ uploads = 0
    /\ last = NoResult
    /\ frame \in AnalyzedFrames
    /\ scored = << >>
    /\ calls = << >>
    /\ handlers = NoHandlers
    /\ a_reports = {}

NextAnalyze ==
    \/ DetectAnomaly
    \/ AnalyzeFrame
    \/ AnalyzeFrameToMetaTags
    \/ SaveKeyframe

SpecAnalyze == InitAnalyze /\ [][NextAnalyze]_vars

(***************************************************************************)
(* Properties of extract_keyframes (checked under SpecExtract)             *)
(***************************************************************************)
Merged == pc \in {"save", "commit", "done"}

RunRows == SelectSeq(a_keyframes, LAMBDA r : r.session_id = RunSession)

StrictlyAscending(s) ==
    \A i \in 1..(Len(s) - 1) : s[i].frame_index < s[i + 1].frame_index

\* the indices extract_keyframes asks the source for
SampledIndices(v) ==
    ScannedIndices(v) \cup
    (IF DurationPositive(v)
     THEN {UniformIndex(v, i) : i \in 0..(UNIFORM_SAMPLE_COUNT - 1)}
     ELSE {})

\* C1: a video with at least MIN_KEYFRAMES readable frames yields at least
\* MIN_KEYFRAMES keyframes (short candidate lists are padded up to the floor).
C1_AtLeastMinKeyframes ==
    (pc = "done" /\ ReadableCount(video) >= MIN_KEYFRAMES)
        => Len(RunRows) >= MIN_KEYFRAMES

\* C2: the final keyframe list of a run is strictly ascending by frame index,
\* hence without a repeated index, whatever the frame count and frame rate.
C2_FinalStrictlyAscending ==
    (Merged /\ video.total_frames >= 1) => StrictlyAscending(final_frames)

\* C3: when more than MAX_KEYFRAMES candidates were merged, the MAX_KEYFRAMES kept
\* are those of highest anomaly score, in index order: no dropped candidate
\* outscores a kept one, so no rule-triggered one is dropped for a uniform one.
C3_CapKeepsHighestScores ==
    (Merged /\ Len(all_candidates) > MAX_KEYFRAMES)
        => /\ Len(final_frames) = MAX_KEYFRAMES
           /\ StrictlyAscending(final_frames)
           /\ \A d \in Range(all_candidates) \ Range(final_frames) :
                \A r \in Range(final_frames) : d.score <= r.score

\* C4: a run that completes has persisted at most MAX_KEYFRAMES keyframes
\* for its session.
C4_AtMostMaxKeyframes ==
    pc = "done" => Len(RunRows) <= MAX_KEYFRAMES

C4_Witness ==
    /\ pc = "done"
    /\ Len(all_candidates) > MAX_KEYFRAMES
    /\ Len(RunRows) = MAX_KEYFRAMES

\* C5: a run in which no sampled frame could be read does not return normally
\* (it ends in a failure instead of an empty keyframe set).
C5_NoReadableFrameIsFatal ==
    pc = "done" => \E i \in SampledIndices(video) : Readable(video, i)

IndicesOf(s) == {s[k].frame_index : k \in DOMAIN s}

Scanned == pc \in {"uniform", "merge", "save", "commit", "done"}
Sampled == pc \in {"merge", "save", "commit", "done"}

RedOnly(f) == f.red > 80 /\ f.black <= 20 /\ f.yellow <= 15

\* C12: when a scanned, readable frame shows high-saturation red as its only
\* anomalous class (as in the 20 s / 30 fps video with a red region in the frames
\* 150..180), the rule-triggered track keeps a frame of the red segment
C12_RedRegionIsRuleTriggered ==
    (/\ Scanned
     /\ RedOnly(video.hotFrame)
     /\ \E i \in ScannedIndices(video) :
           i >= video.hotLo /\ i < video.hotHi /\ Readable(video, i))
        => \E k \in DOMAIN priority_frames :
              /\ priority_frames[k].frame_index >= video.hotLo
              /\ priority_frames[k].frame_index < video.hotHi

\* C16: a sampled frame that cannot be read is skipped and the run goes on: every
\* readable scanned frame above the threshold is a rule-triggered candidate, every
\* readable uniform sample away from them is a uniform candidate
C16_UnreadableFrameIsSkipped ==
    Sampled =>
        /\ \A i \in ScannedIndices(video) :
              (Readable(video, i)
                 /\ detect_anomaly_opencv(FrameAt(video, i)) > PRIORITY_FRAME_THRESHOLD)
                  => i \in IndicesOf(priority_frames)
        /\ DurationPositive(video) =>
              \A n \in 0..(UNIFORM_SAMPLE_COUNT - 1) :
                  (Readable(video, UniformIndex(video, n))
                     /\ ~NearPriority(priority_frames, UniformIndex(video, n)))
                      => UniformIndex(video, n) \in IndicesOf(uniform_frames)

\* a completed run that met an unreadable scanned frame and kept a rule-triggered
\* and a uniform frame from behind it
C16_Witness ==
    /\ pc = "done"
    /\ \E i \in ScannedIndices(video) :
          /\ ~Readable(video, i)
          /\ \E k \in DOMAIN priority_frames : priority_frames[k].frame_index > i
          /\ \E k \in DOMAIN uniform_frames : uniform_frames[k].frame_index > i

(***************************************************************************)
(* Properties of the matcher (checked under SpecMatch)                     *)
(***************************************************************************)
\* the baseline frames the matcher may draw from, with the zone of their session
BaselinePool ==
    {[id |-> i, zone |-> a_sessions[a_keyframes[i].session_id].zone_id,
      meta_tags |-> a_keyframes[i].meta_tags] :
        i \in {j \in DOMAIN a_keyframes :
                 LET ses == a_sessions[a_keyframes[j].session_id]
                 IN  /\ ses.session_type = "baseline"
                     /\ ses.processing_status = "completed"
                     /\ ses.zone_id # 0}}

CompletedBaselineSessions ==
    {i \in DOMAIN a_sessions : /\ a_sessions[i].session_type = "baseline"
                               /\ a_sessions[i].processing_status = "completed"}

PoolScore(tags, b) ==
    calculate_structural_match_score(parse_meta_tags(tags), parse_meta_tags(b.meta_tags))

\* the frames of the pool that reach the pool's highest score for these tags
TopOfPool(tags) ==
    {b \in BaselinePool : \A c \in BaselinePool : PoolScore(tags, c) <= PoolScore(tags, b)}

\* rows are stored as they are captured: the lowest id is the earliest capture
EarliestCaptured(frames) == CHOOSE b \in frames : \A c \in frames : b.id <= c.id

\* the mode the specification assigns to a number of zones
ModeByZoneCount(n) ==
    IF n = 0 THEN "none"
    ELSE IF n <= 2 THEN "minimal"
    ELSE IF n <= 5 THEN "partial"
    ELSE "full"

ZonesOf(refs) == {refs[i].baseline_zone_id : i \in DOMAIN refs}

\* C6: every reference match_frames_to_baseline returns has a matching score of
\* at least MIN_MATCH_SCORE, whatever the quick-check tags and the baseline
C6_MatchScoreAtLeastMin ==
    last.op = "match" =>
        \A i \in DOMAIN last.matches :
            last.matches[i].found => last.matches[i].matching_score >= MIN_MATCH_SCORE

\* a frame matched just above the threshold, next to baseline frames that score
\* below it without being returned
C6_Witness ==
    /\ last.op = "match"
    /\ \E i \in DOMAIN last.matches :
          /\ last.matches[i].found
          /\ last.matches[i].matching_score < 550
    /\ \E b \in BaselinePool :
          /\ PoolScore(last.qc[1], b) > 0
          /\ PoolScore(last.qc[1], b) < MIN_MATCH_SCORE

\* C7: when several baseline frames tie at the highest score (at least
\* MIN_MATCH_SCORE), the match is the earliest captured of them, whatever their
\* zones and sessions.  Stated for the runs in which the session query returns the
\* sessions in insertion order, the order most favourable to the property.
C7_TieResolvesToEarliest ==
    (last.op = "match" /\ ~last.reversed) =>
        \A i \in DOMAIN last.matches :
            last.matches[i].found =>
                last.matches[i].baseline_frame_id = EarliestCaptured(TopOfPool(last.qc[i])).id

\* C8: the mode of build_baseline_reference_simple is given by the number of zones
\* with a baseline frame of a completed baseline session alone: 0 none, 1-2 minimal,
\* 3-5 partial, 6-7 full
C8_SimpleModeByZoneCount ==
    last.op = "simple" =>
        last.reference.comparison_mode =
            ModeByZoneCount(Cardinality({b.zone : b \in BaselinePool}))

\* C9: the mode of build_baseline_reference is given by the number of distinct zones
\* among the accepted matches alone (0 none, 1-2 minimal, 3-5 partial, 6-7 full),
\* not by the number of quick-check frames
C9_StructuralModeByZoneCount ==
    last.op = "build" =>
        last.reference.comparison_mode =
            ModeByZoneCount(Cardinality(ZonesOf(last.reference.matched_baseline_frames)))

\* C10: with no completed baseline session, match_frames_to_baseline returns no
\* match and both build operations return has_baseline false, mode none and no
\* matched frame
C10_NoCompletedBaseline ==
    CompletedBaselineSessions = {} =>
        /\ last.op = "match" => MatchedRefs(last.matches) = << >>
        /\ last.op \in {"build", "simple"} =>
              /\ last.reference.has_baseline = FALSE
              /\ last.reference.comparison_mode = "none"
              /\ last.reference.matched_baseline_frames = << >>

\* the score the specification assigns to two tag triples, axis by axis
AxisCredit(a, b, weight) ==
    IF a = "unknown" \/ b = "unknown" THEN (weight * 3) \div 10
    ELSE IF a = b THEN weight
    ELSE 0

WeightedAxisCredit(q, b) ==
    AxisCredit(q.side, b.side, WEIGHT_SIDE)
      + AxisCredit(q.tooth_type, b.tooth_type, WEIGHT_TOOTH_TYPE)
      + AxisCredit(q.region, b.region, WEIGHT_REGION)

PoolFrame(id) == CHOOSE b \in BaselinePool : b.id = id

\* C19: the frame returned for a candidate scores the maximum over all baseline
\* frames of all zones, and a frame is returned exactly when some baseline frame
\* scores at least MIN_MATCH_SCORE
C19_BestOfAllZonesIffAboveMin ==
    last.op = "match" =>
        \A i \in DOMAIN last.matches :
            /\ last.matches[i].found
                  <=> \E b \in BaselinePool : PoolScore(last.qc[i], b) >= MIN_MATCH_SCORE
            /\ last.matches[i].found =>
                  /\ last.matches[i].baseline_frame_id
                        \in {b.id : b \in TopOfPool(last.qc[i])}
                  /\ \A b \in BaselinePool :
                        PoolScore(last.qc[i], b) <= last.matches[i].matching_score

\* a match found behind an earlier frame of another zone that also reaches the
\* threshold with a lower score
C19_Witness ==
    /\ last.op = "match"
    /\ ~last.reversed
    /\ last.matches[1].found
    /\ \E b \in BaselinePool :
          /\ b.id < last.matches[1].baseline_frame_id
          /\ b.zone # last.matches[1].baseline_zone_id
          /\ PoolScore(last.qc[1], b) >= MIN_MATCH_SCORE
          /\ PoolScore(last.qc[1], b) < last.matches[1].matching_score

\* C20: the structural score is the sum over side (0.35), tooth type (0.35) and
\* region (0.30) of the full weight for equal known tags, 30% of the weight when
\* either tag is unknown, and nothing for different known tags
C20_ScoreIsWeightedAxisCredit ==
    last.op = "match" =>
        \A i \in DOMAIN last.matches :
            /\ \A b \in BaselinePool :
                  PoolScore(last.qc[i], b) = WeightedAxisCredit(last.qc[i], b.meta_tags)
            /\ last.matches[i].found =>
                  last.matches[i].matching_score =
                      WeightedAxisCredit(last.qc[i],
                          PoolFrame(last.matches[i].baseline_frame_id).meta_tags)

\* a match whose score includes an axis unknown on both sides, next to a baseline
\* frame that differs from the candidate on a known axis
C20_Witness ==
    /\ last.op = "match"
    /\ last.matches[1].found
    /\ LET q == last.qc[1]
           m == PoolFrame(last.matches[1].baseline_frame_id).meta_tags
       IN  /\ q.side = "unknown" /\ m.side = "unknown"
           /\ q.tooth_type = m.tooth_type /\ q.tooth_type # "unknown"
           /\ \E b \in BaselinePool :
                 /\ b.meta_tags.tooth_type # q.tooth_type
                 /\ b.meta_tags.tooth_type # "unknown"

(***************************************************************************)
(* Scorer and classifier properties (SpecAnalyze)                          *)
(***************************************************************************)
\* the calls made on the frame under test
CallsOnFrame == {k \in DOMAIN calls : calls[k].image = frame}

AllUnknown(tags) ==
    /\ tags.side = "unknown"
    /\ tags.tooth_type = "unknown"
    /\ tags.region = "unknown"
    /\ tags.confidence_score = 0

\* C13: every anomaly score the scorer returns and every confidence the
\* classifier returns lies in [0,1] (0..10000 and 0..1000 in the units used
\* here), and so do the anomaly_score and the confidence_score stored with a
\* keyframe.
C13_ScoresAndConfidencesInUnitRange ==
    /\ \A k \in DOMAIN scored : scored[k] >= 0 /\ scored[k] <= 10000
    /\ \A k \in DOMAIN calls :
            /\ calls[k].tags.confidence_score >= 0
            /\ calls[k].tags.confidence_score <= 1000
    /\ \A k \in DOMAIN a_keyframes :
            /\ a_keyframes[k].anomaly_score >= 0
            /\ a_keyframes[k].anomaly_score <= 10000
            /\ a_keyframes[k].meta_tags.confidence_score >= 0
            /\ a_keyframes[k].meta_tags.confidence_score <= 1000

\* a frame that reaches the top of the score range was scored, classified with
\* a positive confidence and stored with both values
C13_Witness ==
    /\ scored = <<10000>>
    /\ \E k \in CallsOnFrame : calls[k].tags.confidence_score > 0
    /\ \E k \in DOMAIN a_keyframes :
            /\ a_keyframes[k].anomaly_score = 10000
            /\ a_keyframes[k].meta_tags.confidence_score > 0

\* every pixel is black: full low-luminance coverage and no coloured coverage
AllZero(f) ==
    /\ f # EmptyFrame
    /\ f.black = 1000 /\ f.yellow = 0 /\ f.red = 0
    /\ f.masks.tooth_white = 0 /\ f.masks.gum_pink = 0
    /\ f.masks.yellow_plaque = 0 /\ f.masks.gum_red = 0

\* C14: an all-dark frame is scored 0.0 by the scorer and is classified with
\* side, tooth type and region unknown and confidence 0, because it does not
\* pass the validity gate.
C14_DarkFrameScoresZeroAndIsUnknown ==
    AllZero(frame) =>
        /\ ~is_valid_oral_image(region_ratios(frame.masks))
        /\ \A k \in DOMAIN scored : scored[k] = 0
        /\ \A k \in CallsOnFrame : AllUnknown(calls[k].tags)

C14_Witness ==
    /\ frame = DarkFrame
    /\ scored = <<0>>
    /\ \E k \in CallsOnFrame :
            /\ AllUnknown(calls[k].tags)
            /\ calls[k].tags.detected_issues = <<"unknown">>

GeneratedFor == last.op = "generate" /\ last.sid \in DOMAIN a_sessions

\* C11: generate_evidence_pack for a session that has no keyframes raises
\* EvidencePackError and leaves every row of a_evidence_packs as it was.
C11_NoKeyframesNoPack ==
    (GeneratedFor /\ KeyframesOf(a_keyframes, last.sid) = << >>)
        => /\ last.outcome.raised = "EvidencePackError"
           /\ a_evidence_packs = last.before

\* a session without keyframes was asked for while other sessions have packs
C11_Witness ==
    /\ GeneratedFor
    /\ KeyframesOf(a_keyframes, last.sid) = << >>
    /\ last.outcome.raised = "EvidencePackError"
    /\ a_evidence_packs # << >>
    /\ a_evidence_packs = last.before

\* C15: when images of the session's keyframes are missing, the call raises
\* what it raises with every image in place, and a pack it returns holds one
\* frame per keyframe row of the session, each with the row's metadata.
C15_MissingImagesKeepTheBundle ==
    (GeneratedFor /\ last.gone # {})
        => /\ last.outcome.raised =
                generate_evidence_pack(Store, last.sid, {}, last.reversed).raised
           /\ last.outcome.raised = "none" =>
                LET frames == last.outcome.pack.frames
                    rows == {i \in DOMAIN a_keyframes :
                                a_keyframes[i].session_id = last.sid}
                IN  /\ Len(frames) = Cardinality(rows)
                    /\ {frames[k].frame_id : k \in DOMAIN frames} = rows
                    /\ \A k \in DOMAIN frames :
                          /\ frames[k].meta_tags =
                                FrameMetaTags(a_keyframes[frames[k].frame_id].meta_tags)
                          /\ frames[k].anomaly_score =
                                a_keyframes[frames[k].frame_id].anomaly_score

\* a pack of two frames was returned although both images were missing
C15_Witness ==
    /\ GeneratedFor
    /\ Cardinality(last.gone) = 2
    /\ last.outcome.raised = "none"
    /\ last.outcome.warnings = last.gone
    /\ Len(last.outcome.pack.frames) = 2

\* the last call read the pack of the session a successful generation was for
ReadBack ==
    /\ last.op = "get"
    /\ last.after.op = "generate"
    /\ last.after.outcome.raised = "none"
    /\ last.sid = last.after.sid

CapturedIn(z) ==
    SelectSeq([i \in DOMAIN a_keyframes |-> i],
              LAMBDA i : \E b \in BaselinePool : b.id = i /\ b.zone = z)

\* C21: get_zone_middle_frames has an entry exactly for the zones with a baseline
\* frame, and the entry of a zone with n frames is the frame at position
\* floor(n/2) of the zone's frames in capture order, also when the frames come
\* from several baseline sessions.
C21_MiddleOfCaptureOrder ==
    last.op = "middle" =>
        \A z \in Zones :
            IF CapturedIn(z) = << >> THEN z \notin DOMAIN last.middle
            ELSE /\ z \in DOMAIN last.middle
                 /\ last.middle[z].id = CapturedIn(z)[(Len(CapturedIn(z)) \div 2) + 1]

(***************************************************************************)
(* The two tracks of extract_keyframes                                     *)
(***************************************************************************)
Apart(s) ==
    \A i, j \in DOMAIN s :
        (s[i].strategy = "uniform_sampled" /\ s[j].strategy = "rule_triggered")
            => Abs(s[i].frame_index - s[j].frame_index) >= PROXIMITY_WINDOW

\* C22: no uniform candidate lies within PROXIMITY_WINDOW frames of a
\* rule-triggered candidate, the uniform track is empty until the rule scan has
\* finished, and every rule-triggered candidate is among the merged candidates.
C22_UniformKeepsClearOfRuleTriggered ==
    /\ pc \in {"idle", "scan", "uniform"} => uniform_frames = << >>
    /\ Apart(priority_frames \o uniform_frames)
    /\ Apart(all_candidates)
    /\ Apart(final_frames)
    /\ Merged => IndicesOf(priority_frames) \subseteq IndicesOf(all_candidates)

\* a run that dropped a readable uniform sample lying beside, not on, a
\* rule-triggered candidate and kept other uniform samples
C22_Witness ==
    /\ pc = "done"
    /\ uniform_frames # << >>
    /\ \E n \in 0..(UNIFORM_SAMPLE_COUNT - 1) :
          /\ Readable(video, UniformIndex(video, n))
          /\ NearPriority(priority_frames, UniformIndex(video, n))
          /\ UniformIndex(video, n) \notin IndicesOf(priority_frames)
          /\ UniformIndex(video, n) \notin IndicesOf(final_frames)

(***************************************************************************)
(* Zones of the matches                                                    *)
(***************************************************************************)
\* the session that owns a keyframe
OwnerOf(id) == a_sessions[a_keyframes[id].session_id]

\* C23: every match of match_frames_to_baseline names a frame of a completed
\* baseline session and carries that session's zone, a zone in 1..7; no other
\* session contributes a frame.
C23_MatchCarriesZoneOfCompletedBaseline ==
    last.op = "match" =>
        \A i \in DOMAIN last.matches :
            last.matches[i].found =>
                LET m == last.matches[i]
                IN  /\ m.baseline_zone_id \in Zones
                    /\ m.baseline_frame_id \in DOMAIN a_keyframes
                    /\ m.baseline_session_id = a_keyframes[m.baseline_frame_id].session_id
                    /\ OwnerOf(m.baseline_frame_id).zone_id = m.baseline_zone_id
                    /\ OwnerOf(m.baseline_frame_id).session_type = "baseline"
                    /\ OwnerOf(m.baseline_frame_id).processing_status = "completed"

\* a frame was matched while a frame of a failed baseline session or of a quick
\* check would have scored higher
C23_Witness ==
    /\ last.op = "match"
    /\ Len(last.matches) = 1
    /\ last.matches[1].found
    /\ \E j \in DOMAIN a_keyframes :
          /\ OwnerOf(j).session_type = "baseline"
          /\ OwnerOf(j).processing_status = "failed"
          /\ calculate_structural_match_score(parse_meta_tags(last.qc[1]),
                                              parse_meta_tags(a_keyframes[j].meta_tags))
                > last.matches[1].matching_score
    /\ \E j \in DOMAIN a_keyframes : OwnerOf(j).session_type = "quick_check"

(***************************************************************************)
(* Atomicity of a run                                                      *)
(***************************************************************************)
\* C24: until the final commit of extract_keyframes no keyframe row of the run is
\* stored, wherever the run stands or fails; after it, the rows of all kept
\* frames are stored together.
C24_RowsAppearAtTheCommitOrNever ==
    /\ pc # "done" => RunRows = << >>
    /\ pc = "failed" => pending = << >>
    /\ pc = "done" => /\ Len(RunRows) = Len(final_frames)
                      /\ pending = << >>
                      /\ \A k \in DOMAIN RunRows :
                            RunRows[k].frame_index = final_frames[k].frame_index

\* a run that failed after its frames had been chosen, at saving or at the commit
C24_Witness ==
    /\ pc = "failed"
    /\ video.opens
    /\ Len(final_frames) >= 2
    /\ a_keyframes = << >>

(***************************************************************************)
(* The matcher only reads                                                  *)
(***************************************************************************)
MatcherReads == {"match", "build", "middle", "simple"}

\* C25: a step of match_frames_to_baseline, build_baseline_reference,
\* get_zone_middle_frames or build_baseline_reference_simple leaves the stored
\* sessions, keyframes and profile as they were.
C25_MatcherLeavesTheStore ==
    [][(last' # last /\ last'.op \in MatcherReads)
          => /\ a_sessions' = a_sessions
             /\ a_keyframes' = a_keyframes
             /\ profile' = profile]_vars

\* the simple reference was built for a user without a profile row, after an upload
C25_Witness ==
    /\ last.op = "simple"
    /\ ~profile.exists
    /\ a_keyframes # << >>
    /\ ~last.reference.has_baseline

(***************************************************************************)
(* The comparison mode of a pack record                                    *)
(***************************************************************************)
\* the comparison_mode generate_evidence_pack puts in the record of a session
ModeWritten(db, sid, reversed) ==
    IF db.sessions[sid].session_type = "quick_check"
    THEN build_baseline_reference_simple(db, reversed).comparison_mode
    ELSE "none"

\* C26: whenever generate_evidence_pack gets as far as writing the record, the
\* comparison_mode it writes is none, partial or full, the values the table
\* a_evidence_packs accepts.
C26_ModeWrittenIsAccepted ==
    (GeneratedFor /\ last.outcome.raised \in {"none", "IntegrityError"})
        => ModeWritten(Store, last.sid, last.reversed) \in {"none", "partial", "full"}

(***************************************************************************)
(* Concurrent baseline uploads                                             *)
(***************************************************************************)
AllDone == \A z \in Zones : handlers[z].pc = "done"

\* C27: when the uploads of all seven zones have finished successfully, however
\* their mark_baseline_completed steps interleaved, baseline_zone_map holds the
\* seven zones and baseline_completed is true.
C27_SevenUploadsCompleteTheBaseline ==
    (handlers # NoHandlers /\ AllDone)
        => /\ profile.baseline_zone_map = Zones
           /\ profile.baseline_completed

(***************************************************************************)
(* One pack record per session                                             *)
(***************************************************************************)
RecordsOf(packs, sid) == {i \in DOMAIN packs : packs[i].session_id = sid}

\* the record the table held before the call is what a generation from the
\* present keyframes and baseline writes
GeneratedFromPresent ==
    /\ PackPlace(last.before, last.sid) # 0
    /\ \E rev \in BOOLEAN :
          generate_evidence_pack([Store EXCEPT !.packs = last.before],
                                 last.sid, {}, rev).packs = last.before

\* C30: after a successful generate_evidence_pack the session has exactly one
\* record, which holds the pack just generated, and no session has more than one;
\* generating again from unchanged keyframes and baseline leaves the table as it was.
C30_OneRecordAndRegenerationChangesNothing ==
    /\ \A sid \in DOMAIN a_sessions : Cardinality(RecordsOf(a_evidence_packs, sid)) <= 1
    /\ (GeneratedFor /\ last.outcome.raised = "none")
          => /\ Cardinality(RecordsOf(a_evidence_packs, last.sid)) = 1
             /\ a_evidence_packs[PackPlace(a_evidence_packs, last.sid)].pack_json
                    = model_dump(last.outcome.pack)
             /\ (last.gone = {} /\ GeneratedFromPresent) => a_evidence_packs = last.before

(***************************************************************************)
(* The status of a session                                                 *)
(***************************************************************************)
StatusOf(sessions, sid) == sessions[sid].processing_status

\* C28: a session that is completed is not failed after the next step, and a
\* session that is failed is not completed after the next step, whichever step of
\* an upload or report request is taken.
C28_TerminalStatusIsFinal ==
    [][\A sid \in DOMAIN a_sessions :
          /\ StatusOf(a_sessions, sid) = "completed" => StatusOf(a_sessions', sid) # "failed"
          /\ StatusOf(a_sessions, sid) = "failed" => StatusOf(a_sessions', sid) # "completed"]_vars

\* C29: every session whose processing_status is completed has at least one
\* committed keyframe row and a row in a_evidence_packs.
C29_CompletedHasKeyframesAndPack ==
    \A sid \in DOMAIN a_sessions :
        StatusOf(a_sessions, sid) = "completed"
            => /\ \E i \in DOMAIN a_keyframes : a_keyframes[i].session_id = sid
               /\ PackPlace(a_evidence_packs, sid) # 0

\* a session was set to completed by an upload under way, and another by a report
C29_Witness ==
    /\ Running /\ Req.pc = "profile" /\ StatusOf(a_sessions, Req.sid) = "completed"
    /\ \E sid \in a_reports : sid # Req.sid /\ StatusOf(a_sessions, sid) = "completed"
====
